---- MODULE Spec2Model ----
(***************************************************************************)
(* Model of the multi-source reconciliation layer of weatherpro            *)
(* (services/etl.py): the reliability tracker, the ensemble mergers and    *)
(* the forecast orchestrator.                                              *)
(*                                                                         *)
(* Numbers.  Reliability scores are kept in tenths (1.0 is 10, the step    *)
(* -0.2 is -2, the ceiling 2.0 is 20); metric values and thresholds are    *)
(* kept in tenths of their unit (30.5 degrees is 305, the threshold 3.0    *)
(* is 30).  The arithmetic is exact: binary rounding of the floats is      *)
(* not modelled.  A mean is never divided out: "val deviates from the      *)
(* mean sum/n by more than t" is computed as |n*val - sum| > n*t.          *)
(*                                                                         *)
(* Python's None is the empty tuple None, a value v that is present is    *)
(* the one-element tuple <<v>>.                                            *)
(***************************************************************************)
EXTENDS Integers, Sequences, FiniteSets, TLC

VARIABLES
    RELIABILITY,      \* etl.RELIABILITY: source -> score (tenths)
    DEVIATION_COUNT,  \* etl.DEVIATION_COUNT: source -> counter
    results,          \* the `results` dict of the last call
    strategy,         \* the strategy argument, or the function, of the last call
    merged,           \* the bundle, or the series, the last call built
    outcome,          \* how the last call ended
    updates,          \* reliability updates performed by the last call
    adjustments,      \* the adjustments of the last update, in order
    before,           \* the tracker as it was when the last call started
    calls,            \* number of calls made so far
    pc,               \* position of each worker thread (race model)
    held,             \* thread-local values of each worker (race model)
    args,             \* the frames handed to weighted_ensemble or interpolate_to_24h
    report,           \* what the last bulletin / alert / report function handed back
    steady            \* the source whose readings stay within threshold, once fixed

vars == <<RELIABILITY, DEVIATION_COUNT, results, strategy, merged, outcome,
          updates, adjustments, before, calls, pc, held, args, report, steady>>

----------------------------------------------------------------------------
(* Bounds of the model *)

MaxUpdates == 3

MaxCalls == 2

\* longest list of frames handed to weighted_ensemble
MaxFrames == 3

----------------------------------------------------------------------------
(* Values *)

None == <<>>

Some(v) == <<v>>

Abs(x) == IF x < 0 THEN -x ELSE x

Max(a, b) == IF a >= b THEN a ELSE b

Min(a, b) == IF a <= b THEN a ELSE b

MaxOf(S) == CHOOSE x \in S : \A y \in S : y <= x

MinOf(S) == CHOOSE x \in S : \A y \in S : x <= y

Sources == {"weatherapi", "openmeteo", "openweather"}

\* insertion order of the RELIABILITY literal and of collect_sources' dict
SrcOrder == <<"weatherapi", "openmeteo", "openweather">>

metrics == <<"temp", "humidity", "pressure", "wind_speed">>

thresholds == [temp |-> 30, humidity |-> 100, pressure |-> 50, wind_speed |-> 20]

Penalty == 2

Reward == 1

Floor == 0

Ceiling == 20

\* an empty pandas DataFrame, a DataFrame with rows, and "no DataFrame"
NoneDF == [isdf |-> FALSE, rows |-> <<>>]

EmptyDF == [isdf |-> TRUE, rows |-> <<>>]

DF(rows) == [isdf |-> TRUE, rows |-> rows]

\* the empty dict {} as a `current` value
EmptyCur == [present |-> FALSE, temp |-> None, humidity |-> None,
             pressure |-> None, wind_speed |-> None, source |-> None]

Cur(t, h, p, w, s) == [present |-> TRUE, temp |-> t, humidity |-> h,
                       pressure |-> p, wind_speed |-> w, source |-> Some(s)]

\* what _safe_fetch returns when the source raised: {}
FetchFailed == [fetched |-> FALSE, current |-> EmptyCur, hourly |-> NoneDF,
                daily |-> NoneDF]

Fetched(c, h, d) == [fetched |-> TRUE, current |-> c, hourly |-> h, daily |-> d]

\* results.get(src, {}).get("current", {})
GetCurrent(data) == IF data.fetched THEN data.current ELSE EmptyCur

\* results.get(src, {}).get(key): None when the key is missing
GetSeries(data, key) == IF data.fetched THEN data[key] ELSE NoneDF

\* Python truth value of a dict
Truthy(cur) == cur.present

----------------------------------------------------------------------------
(* Reliability tracker: update_reliability_multi *)

InitRELIABILITY == [s \in Sources |->
    CASE s = "weatherapi" -> 10 [] s = "openmeteo" -> 9 [] s = "openweather" -> 5]

InitDEVIATION_COUNT == [s \in Sources |-> 0]

\* the lists `values`, `sources` built for one metric, zipped
RECURSIVE Reporting(_, _, _)
Reporting(res, metric, i) ==
    IF i > Len(SrcOrder) THEN <<>>
    ELSE LET src == SrcOrder[i]
             cur == GetCurrent(res[src])
             rest == Reporting(res, metric, i + 1)
         IN  IF Truthy(cur) /\ cur[metric] # None
             THEN <<[src |-> src, val |-> cur[metric][1]]>> \o rest
             ELSE rest

RECURSIVE SumVals(_, _)
SumVals(pairs, i) ==
    IF i > Len(pairs) THEN 0 ELSE pairs[i].val + SumVals(pairs, i + 1)

\* variant: the abs() is missing
DeviatesSigned(val, n, sum, metric) == n * val - sum > n * thresholds[metric]

\* variant: >= in place of >
DeviatesAtThreshold(val, n, sum, metric) == Abs(n * val - sum) >= n * thresholds[metric]

\* deviation > thresholds[metric], deviation = abs(val - mean(values))
Deviates(val, n, sum, metric) == Abs(n * val - sum) > n * thresholds[metric]

\* variant: the penalty is the size of the reward
LoweredByReward(score) == Max(score - Reward, Floor)

\* max(RELIABILITY[src] - 0.2, 0.0)
Lowered(score) == Max(score - Penalty, Floor)

\* variant: the ceiling is missing
RaisedUnclamped(score) == score + Reward

\* variant: a score that stands at the floor stays there
RaisedAboveFloor(score) == IF score = Floor THEN Floor ELSE Min(score + Reward, Ceiling)

\* min(RELIABILITY[src] + 0.1, 2.0)
Raised(score) == Min(score + Reward, Ceiling)

\* variant: = 1 in place of += 1
CountedOnce(count) == 1

\* DEVIATION_COUNT[src] += 1
Counted(count) == count + 1

\* one pass of the body of `for src, val in zip(sources, values)`
Adjust(st, src, val, n, sum, metric) ==
    IF Deviates(val, n, sum, metric)
    THEN [rel |-> [st.rel EXCEPT ![src] = Lowered(st.rel[src])],
          dev |-> [st.dev EXCEPT ![src] = Counted(st.dev[src])],
          log |-> Append(st.log, [src |-> src, metric |-> metric, kind |-> "down",
                                  from |-> st.rel[src],
                                  to |-> Lowered(st.rel[src])])]
    ELSE [rel |-> [st.rel EXCEPT ![src] = Raised(st.rel[src])],
          dev |-> st.dev,
          log |-> Append(st.log, [src |-> src, metric |-> metric, kind |-> "up",
                                  from |-> st.rel[src],
                                  to |-> Raised(st.rel[src])])]

RECURSIVE AdjustAll(_, _, _, _, _)
AdjustAll(st, pairs, i, sum, metric) ==
    IF i > Len(pairs) THEN st
    ELSE AdjustAll(Adjust(st, pairs[i].src, pairs[i].val, Len(pairs), sum, metric),
                   pairs, i + 1, sum, metric)

\* variant: a single reporting source is enough (< 1 in place of < 2)
UpdateMetricNoSkip(st, res, metric) ==
    LET pairs == Reporting(res, metric, 1)
    IN  IF Len(pairs) < 1 THEN st
        ELSE AdjustAll(st, pairs, 1, SumVals(pairs, 1), metric)

\* one pass of the body of `for metric in metrics`
UpdateMetric(st, res, metric) ==
    LET pairs == Reporting(res, metric, 1)
    IN  IF Len(pairs) < 2 THEN st
        ELSE AdjustAll(st, pairs, 1, SumVals(pairs, 1), metric)

RECURSIVE UpdateFrom(_, _, _)
UpdateFrom(st, res, k) ==
    IF k > Len(metrics) THEN st
    ELSE UpdateFrom(UpdateMetric(st, res, metrics[k]), res, k + 1)

\* the tracker after update_reliability_multi(res) with the default arguments
Updated(rel, dev, res) == UpdateFrom([rel |-> rel, dev |-> dev, log |-> <<>>], res, 1)

----------------------------------------------------------------------------
(* Ensemble mergers: merge_sources, merge_sources_dynamic,                  *)
(* merge_sources_weighted.  A DataFrame row keeps the columns ts, temp (one  *)
(* of the columns the weighted merge scales), pressure (a numeric column    *)
(* it does not scale), weather_desc and source; every numeric column holds  *)
(* floats or NaN.  A mean is the pair <<numerator, denominator>>.           *)

FullRow(t, v, p, d, s) ==
    [ts |-> t, temp |-> v, pressure |-> p, weather_desc |-> d, source |-> s]

Row(t, v, s) == FullRow(t, v, None, None, s)

\* `cur and cur.get("temp") is not None`
HasTemp(cur) == Truthy(cur) /\ cur.temp # None

\* isinstance(df, pd.DataFrame) and not df.empty
NonEmptyDF(df) == df.isdf /\ df.rows # <<>>

\* variant: any non-empty reading wins, whatever its temperature
RECURSIVE FirstReading(_, _, _)
FirstReading(res, order, i) ==
    IF i > Len(order) THEN EmptyCur
    ELSE LET cur == GetCurrent(res[order[i]])
         IN  IF Truthy(cur) THEN cur ELSE FirstReading(res, order, i + 1)

\* the loop `for src in order: ... merged["current"] = cur; break`
RECURSIVE FirstCurrent(_, _, _)
FirstCurrent(res, order, i) ==
    IF i > Len(order) THEN EmptyCur
    ELSE LET cur == GetCurrent(res[order[i]])
         IN  IF HasTemp(cur) THEN cur ELSE FirstCurrent(res, order, i + 1)

\* variant: a series is taken only from a source whose reading has a temperature
RECURSIVE FirstSeriesOfReporter(_, _, _, _)
FirstSeriesOfReporter(res, key, order, i) ==
    IF i > Len(order) THEN NoneDF
    ELSE LET df == GetSeries(res[order[i]], key)
         IN  IF NonEmptyDF(df) /\ HasTemp(GetCurrent(res[order[i]])) THEN df
             ELSE FirstSeriesOfReporter(res, key, order, i + 1)

\* the loop `for src in order: ... merged[key] = df; break`
RECURSIVE FirstSeries(_, _, _, _)
FirstSeries(res, key, order, i) ==
    IF i > Len(order) THEN NoneDF
    ELSE LET df == GetSeries(res[order[i]], key)
         IN  IF NonEmptyDF(df) THEN df ELSE FirstSeries(res, key, order, i + 1)

RECURSIVE SeqSum(_, _)
SeqSum(vals, i) == IF i > Len(vals) THEN 0 ELSE vals[i] + SeqSum(vals, i + 1)

\* float(np.mean(xs)) if xs else None
MeanOrNone(vals) == IF vals = <<>> THEN None ELSE <<SeqSum(vals, 1), Len(vals)>>

\* variant: only the readings that carry a temperature are collected
RECURSIVE FieldValuesOfTempReporters(_, _, _)
FieldValuesOfTempReporters(res, field, i) ==
    IF i > Len(SrcOrder) THEN <<>>
    ELSE LET cur == GetCurrent(res[SrcOrder[i]])
             rest == FieldValuesOfTempReporters(res, field, i + 1)
         IN  IF HasTemp(cur) /\ cur[field] # None THEN <<cur[field][1]>> \o rest
             ELSE rest

\* the list temps / hums / press / winds of the "avg" branch
RECURSIVE FieldValues(_, _, _)
FieldValues(res, field, i) ==
    IF i > Len(SrcOrder) THEN <<>>
    ELSE LET cur == GetCurrent(res[SrcOrder[i]])
             rest == FieldValues(res, field, i + 1)
         IN  IF Truthy(cur) /\ cur[field] # None THEN <<cur[field][1]>> \o rest
             ELSE rest

AvgCurrent(res) ==
    [present |-> TRUE,
     temp |-> MeanOrNone(FieldValues(res, "temp", 1)),
     humidity |-> MeanOrNone(FieldValues(res, "humidity", 1)),
     pressure |-> MeanOrNone(FieldValues(res, "pressure", 1)),
     wind_speed |-> MeanOrNone(FieldValues(res, "wind_speed", 1)),
     source |-> Some("avg")]

\* d.dropna(how="all").empty
RECURSIVE AllRowsNull(_, _)
AllRowsNull(rows, i) ==
    IF i > Len(rows) THEN TRUE
    ELSE /\ rows[i].ts = None /\ rows[i].temp = None /\ rows[i].pressure = None
         /\ rows[i].weather_desc = None /\ rows[i].source = None
         /\ AllRowsNull(rows, i + 1)

\* the list `dfs`: the non-empty series of the sources, all-null ones dropped
RECURSIVE UsableSeries(_, _, _)
UsableSeries(res, key, i) ==
    IF i > Len(SrcOrder) THEN <<>>
    ELSE LET df == GetSeries(res[SrcOrder[i]], key)
             rest == UsableSeries(res, key, i + 1)
         IN  IF NonEmptyDF(df) /\ ~AllRowsNull(df.rows, 1)
             THEN <<[src |-> SrcOrder[i], rows |-> df.rows]>> \o rest
             ELSE rest

\* pd.concat(dfs, ignore_index=True), each row tagged with its weight
RECURSIVE Concat(_, _, _)
Concat(dfs, weight, i) ==
    IF i > Len(dfs) THEN <<>>
    ELSE [k \in 1..Len(dfs[i].rows) |->
            [ts |-> dfs[i].rows[k].ts, temp |-> dfs[i].rows[k].temp,
             pressure |-> dfs[i].rows[k].pressure,
             weather_desc |-> dfs[i].rows[k].weather_desc,
             weight |-> weight[dfs[i].src]]]
         \o Concat(dfs, weight, i + 1)

\* the group keys of groupby("ts", sort=False): first appearance, null keys dropped
RECURSIVE GroupKeys(_, _, _)
GroupKeys(rows, i, seen) ==
    IF i > Len(rows) THEN <<>>
    ELSE IF rows[i].ts = None \/ rows[i].ts \in seen
         THEN GroupKeys(rows, i + 1, seen)
         ELSE <<rows[i].ts>> \o GroupKeys(rows, i + 1, seen \cup {rows[i].ts})

\* over the rows of one group: sum of weight*temp and number of the rows with
\* a temp, sum of weight*pressure, sum of pressure and number of the rows with
\* a pressure, sum of all weights (a null is skipped by sum and by mean)
RECURSIVE GroupSums(_, _, _)
GroupSums(rows, ts, i) ==
    IF i > Len(rows)
    THEN [num |-> 0, cnt |-> 0, pnum |-> 0, psum |-> 0, pcnt |-> 0, weight |-> 0]
    ELSE LET rest == GroupSums(rows, ts, i + 1)
             r == rows[i]
         IN  IF r.ts # ts THEN rest
             ELSE [num |-> rest.num + (IF r.temp = None THEN 0 ELSE r.weight * r.temp[1]),
                   cnt |-> rest.cnt + (IF r.temp = None THEN 0 ELSE 1),
                   pnum |-> rest.pnum
                              + (IF r.pressure = None THEN 0 ELSE r.weight * r.pressure[1]),
                   psum |-> rest.psum + (IF r.pressure = None THEN 0 ELSE r.pressure[1]),
                   pcnt |-> rest.pcnt + (IF r.pressure = None THEN 0 ELSE 1),
                   weight |-> rest.weight + r.weight]

RECURSIVE TotalWeight(_, _)
TotalWeight(rows, i) ==
    IF i > Len(rows) THEN 0 ELSE rows[i].weight + TotalWeight(rows, i + 1)

UnitWeight == [s \in Sources |-> 1]

\* concat(dfs).groupby("ts", sort=False).mean(numeric_only=True).reset_index()
AvgSeries(res, key) ==
    LET dfs == UsableSeries(res, key, 1)
        rows == Concat(dfs, UnitWeight, 1)
        keys == GroupKeys(rows, 1, {})
    IN  IF dfs = <<>> THEN NoneDF
        ELSE DF([k \in 1..Len(keys) |->
                   LET g == GroupSums(rows, keys[k], 1)
                   IN  FullRow(keys[k],
                               IF g.cnt = 0 THEN None ELSE <<g.num, g.cnt>>,
                               IF g.pcnt = 0 THEN None ELSE <<g.psum, g.pcnt>>,
                               None, None)])

\* merge_sources(results, strategy)
merge_sources(res, strat) ==
    [raised |-> FALSE,
     bundle |->
       CASE strat = "best" ->
              [current |-> FirstCurrent(res, SrcOrder, 1),
               hourly |-> FirstSeries(res, "hourly", SrcOrder, 1),
               daily |-> FirstSeries(res, "daily", SrcOrder, 1)]
         [] strat = "avg" ->
              [current |-> AvgCurrent(res),
               hourly |-> AvgSeries(res, "hourly"),
               daily |-> AvgSeries(res, "daily")]
         [] OTHER ->
              [current |-> EmptyCur, hourly |-> NoneDF, daily |-> NoneDF]]

\* position of s in sorted(RELIABILITY.items(), key=score, reverse=True):
\* the sort is stable, equal scores keep the insertion order
Position(rel, s) ==
    1 + Cardinality({t \in Sources :
            \/ rel[t] > rel[s]
            \/ rel[t] = rel[s] /\ (\E i, j \in DOMAIN SrcOrder :
                                     SrcOrder[i] = t /\ SrcOrder[j] = s /\ i < j)})

sorted_sources(rel) ==
    [k \in 1..Cardinality(Sources) |-> CHOOSE s \in Sources : Position(rel, s) = k]

\* merge_sources_dynamic(results): _normalize_daily is not a name of the
\* module, so its call at line 162 raises NameError
merge_sources_dynamic(res, rel) ==
    LET order == sorted_sources(rel)
        daily == FirstSeries(res, "daily", order, 1)
    IN  [raised |-> NonEmptyDF(daily),
         bundle |-> [current |-> FirstCurrent(res, order, 1),
                     hourly |-> FirstSeries(res, "hourly", order, 1),
                     daily |-> NoneDF]]

\* the lists built by the CURRENT loop of merge_sources_weighted, zipped
RECURSIVE WeightedInputs(_, _, _)
WeightedInputs(res, rel, i) ==
    IF i > Len(SrcOrder) THEN <<>>
    ELSE LET cur == GetCurrent(res[SrcOrder[i]])
             rest == WeightedInputs(res, rel, i + 1)
         IN  IF HasTemp(cur) THEN <<[cur |-> cur, weight |-> rel[SrcOrder[i]]]>> \o rest
             ELSE rest

\* sums over the entries whose value for `field` is not None
RECURSIVE WeightedSums(_, _, _)
WeightedSums(ins, field, i) ==
    IF i > Len(ins) THEN [num |-> 0, cnt |-> 0, weight |-> 0]
    ELSE LET rest == WeightedSums(ins, field, i + 1)
         IN  IF ins[i].cur[field] = None THEN rest
             ELSE [num |-> rest.num + ins[i].weight * ins[i].cur[field][1],
                   cnt |-> rest.cnt + 1,
                   weight |-> rest.weight + ins[i].weight]

RECURSIVE SumWeights(_, _)
SumWeights(ins, i) == IF i > Len(ins) THEN 0 ELSE ins[i].weight + SumWeights(ins, i + 1)

\* weighted_avg(values, weights): np.average raises ZeroDivisionError when the
\* weights of the non-null values sum to zero
weighted_avg(ins, field) ==
    LET g == WeightedSums(ins, field, 1)
    IN  IF ins = <<>> \/ SumWeights(ins, 1) = 0 THEN [raised |-> FALSE, value |-> None]
        ELSE IF g.cnt = 0 THEN [raised |-> FALSE, value |-> None]
        ELSE IF g.weight = 0 THEN [raised |-> TRUE, value |-> None]
        ELSE [raised |-> FALSE, value |-> <<g.num, g.weight>>]

\* the list dfs_hourly: the non-empty frames; the weight column is never
\* null, so dropna(how="all") drops none of them
RECURSIVE WeightedFrames(_, _, _)
WeightedFrames(res, key, i) ==
    IF i > Len(SrcOrder) THEN <<>>
    ELSE LET df == GetSeries(res[SrcOrder[i]], key)
             rest == WeightedFrames(res, key, i + 1)
         IN  IF NonEmptyDF(df) THEN <<[src |-> SrcOrder[i], rows |-> df.rows]>> \o rest
             ELSE rest

\* the HOURLY block of merge_sources_weighted: scale, concat, group, sum,
\* divide by the summed weight unless the weights of the whole frame sum to 0
\* (0.0 / 0.0 is NaN in a group whose weights sum to 0); pressure is not one
\* of the scaled columns and comes out as the plain sum of the group
WeightedSeries(res, rel, key) ==
    LET dfs == WeightedFrames(res, key, 1)
        rows == Concat(dfs, rel, 1)
        keys == GroupKeys(rows, 1, {})
        total == SeqSum([k \in 1..Len(keys) |-> GroupSums(rows, keys[k], 1).weight], 1)
    IN  IF dfs = <<>> THEN NoneDF
        ELSE DF([k \in 1..Len(keys) |->
                   LET g == GroupSums(rows, keys[k], 1)
                   IN  FullRow(keys[k],
                               IF total = 0 THEN <<g.num, 1>>
                               ELSE IF g.weight = 0 THEN None
                               ELSE <<g.num, g.weight>>,
                               <<g.psum, 1>>,
                               None, None)])

\* some source has a non-empty daily frame: the DAILY loop calls _normalize_daily
RECURSIVE AnyDaily(_, _)
AnyDaily(res, i) ==
    IF i > Len(SrcOrder) THEN FALSE
    ELSE NonEmptyDF(GetSeries(res[SrcOrder[i]], "daily")) \/ AnyDaily(res, i + 1)

\* merge_sources_weighted(results)
merge_sources_weighted(res, rel) ==
    LET ins == WeightedInputs(res, rel, 1)
        t == weighted_avg(ins, "temp")
        h == weighted_avg(ins, "humidity")
        p == weighted_avg(ins, "pressure")
        w == weighted_avg(ins, "wind_speed")
    IN  [raised |-> t.raised \/ h.raised \/ p.raised \/ w.raised \/ AnyDaily(res, 1),
         bundle |-> [current |-> [present |-> TRUE, temp |-> t.value,
                                  humidity |-> h.value, pressure |-> p.value,
                                  wind_speed |-> w.value, source |-> Some("weighted")],
                     hourly |-> WeightedSeries(res, rel, "hourly"),
                     daily |-> NoneDF]]

----------------------------------------------------------------------------
(* weighted_ensemble(dfs, weights) of api/weather_services.py.  The weights *)
(* are kept in tenths; the default 1.0 / len(dfs) for each frame is kept as *)
(* 1 for each: the common factor cancels in every quotient and leaves the   *)
(* test total_weight > 0 as it is.                                          *)

DefaultWeights(n) == [i \in 1..n |-> 1]

\* the list `normalized`: the frames that are not None and not empty, each
\* with its place in dfs; the weight column keeps dropna(how="all") from
\* dropping any of them
RECURSIVE Normalized(_, _)
Normalized(dfs, i) ==
    IF i > Len(dfs) THEN <<>>
    ELSE LET rest == Normalized(dfs, i + 1)
         IN  IF NonEmptyDF(dfs[i]) THEN <<[src |-> i, rows |-> dfs[i].rows]>> \o rest
             ELSE rest

\* g["weather_desc"].dropna().iloc[0]: the first description of the group
RECURSIVE FirstDesc(_, _, _)
FirstDesc(rows, ts, i) ==
    IF i > Len(rows) THEN None
    ELSE IF rows[i].ts = ts /\ rows[i].weather_desc # None THEN rows[i].weather_desc
    ELSE FirstDesc(rows, ts, i + 1)

\* aggregate_group applied to the group of ts
aggregate_group(rows, ts) ==
    LET g == GroupSums(rows, ts, 1)
    IN  FullRow(ts,
                IF g.weight > 0 THEN <<g.num, g.weight>> ELSE None,
                IF g.weight > 0 THEN <<g.pnum, g.weight>> ELSE None,
                FirstDesc(rows, ts, 1),
                None)

weighted_ensemble(dfs, weights) ==
    LET w == IF weights = None THEN DefaultWeights(Len(dfs)) ELSE weights[1]
        normalized == Normalized(dfs, 1)
        rows == Concat(normalized, w, 1)
        keys == GroupKeys(rows, 1, {})
    IN  IF dfs = <<>> THEN [raised |-> TRUE, frame |-> NoneDF]
        ELSE IF Len(w) # Len(dfs) THEN [raised |-> TRUE, frame |-> NoneDF]
        ELSE IF normalized = <<>> THEN [raised |-> TRUE, frame |-> NoneDF]
        ELSE [raised |-> FALSE,
              frame |-> DF([k \in 1..Len(keys) |-> aggregate_group(rows, keys[k])])]

----------------------------------------------------------------------------
(* State after the module is loaded *)

NoResults == [s \in Sources |-> FetchFailed]

NoBundle == [current |-> EmptyCur, hourly |-> NoneDF, daily |-> NoneDF]

\* what a worker thread holds in its frame: the argument, the adjustments it
\* still has to apply, the value it loaded last
NoJob == [res |-> NoResults, todo |-> <<>>, loaded |-> 0]

\* weighted_ensemble has not been called
NoArgs == [dfs |-> <<>>, weights |-> None]

\* no bulletin / alert function has been called
NoReport == [fn |-> "none", raised |-> FALSE, nodata |-> FALSE]

Init ==
    /\ RELIABILITY = InitRELIABILITY
    /\ DEVIATION_COUNT = InitDEVIATION_COUNT
    /\ results = NoResults
    /\ strategy = "none"
    /\ merged = NoBundle
    /\ outcome = "idle"
    /\ updates = 0
    /\ adjustments = <<>>
    /\ before = [rel |-> InitRELIABILITY, dev |-> InitDEVIATION_COUNT]
    /\ calls = 0
    /\ pc = <<"idle", "idle">>
    /\ held = <<NoJob, NoJob>>
    /\ args = NoArgs
    /\ report = NoReport
    /\ steady = "none"

----------------------------------------------------------------------------
(* Inputs of the tracker model: the current readings a caller may pass *)

\* openmeteo's current reading never carries humidity or pressure
Shapes(s) ==
    IF s = "openmeteo"
    THEN { <<Some(300), None, None, None>>,
           <<Some(360), None, None, Some(20)>> }
    ELSE { <<Some(300), Some(500), Some(10100), Some(20)>>,
           <<Some(360), Some(800), Some(10300), None>>,
           <<Some(300), None, None, None>> }

Readings(s) == {EmptyCur} \cup {Cur(q[1], q[2], q[3], q[4], s) : q \in Shapes(s)}

CurrentOnly(c) == Fetched(c, EmptyDF, EmptyDF)

----------------------------------------------------------------------------
(* update_reliability_multi(results), called on its own *)

update_reliability_multi(res) ==
    LET st == Updated(RELIABILITY, DEVIATION_COUNT, res)
    IN  /\ RELIABILITY' = st.rel
        /\ DEVIATION_COUNT' = st.dev
        /\ adjustments' = st.log
        /\ before' = [rel |-> RELIABILITY, dev |-> DEVIATION_COUNT]
        /\ results' = res
        /\ updates' = 1
        /\ outcome' = "returned"
        /\ calls' = calls + 1
        /\ UNCHANGED <<strategy, merged, pc, held, args, report, steady>>

UpdateCall ==
    /\ outcome = "idle"
    /\ calls < MaxUpdates
    /\ \E a \in Readings("weatherapi"), b \in Readings("openmeteo"),
          c \in Readings("openweather") :
          update_reliability_multi(
              [s \in Sources |->
                  CASE s = "weatherapi" -> CurrentOnly(a)
                    [] s = "openmeteo" -> CurrentOnly(b)
                    [] s = "openweather" -> CurrentOnly(c)])

\* the caller drops what the call handed back; the tracker stays
Return ==
    /\ outcome # "idle"
    /\ results' = NoResults
    /\ strategy' = "none"
    /\ merged' = NoBundle
    /\ outcome' = "idle"
    /\ updates' = 0
    /\ adjustments' = <<>>
    /\ before' = [rel |-> RELIABILITY, dev |-> DEVIATION_COUNT]
    /\ args' = NoArgs
    /\ report' = NoReport
    /\ UNCHANGED <<RELIABILITY, DEVIATION_COUNT, calls, pc, held, steady>>

NextTracker == UpdateCall \/ Return

SpecTracker == Init /\ [][NextTracker]_vars

----------------------------------------------------------------------------
(* The temperature scenario: updates whose readings carry a temperature only *)

ScenarioTemps == {None, Some(300), Some(305), Some(450)}

TempOnly(t, s) == IF t = None THEN EmptyCur ELSE Cur(t, None, None, None, s)

ScenarioCall ==
    /\ outcome = "idle"
    /\ calls < MaxUpdates
    /\ \E a \in ScenarioTemps, b \in ScenarioTemps, c \in ScenarioTemps :
          update_reliability_multi(
              [s \in Sources |->
                  CASE s = "weatherapi" -> CurrentOnly(TempOnly(a, s))
                    [] s = "openmeteo" -> CurrentOnly(TempOnly(b, s))
                    [] s = "openweather" -> CurrentOnly(TempOnly(c, s))])

NextScenario == ScenarioCall \/ Return

SpecScenario == Init /\ [][NextScenario]_vars

----------------------------------------------------------------------------
(* Repeated updates.  After some updates of the temperature scenario one    *)
(* source is fixed, and from then on every update has that source within    *)
(* threshold on the metric it reports and compared on it.  The updates go    *)
(* on for ever, so the count of calls is no longer kept.                     *)

SteadyTemps == {Some(300), Some(346)}

SteadyInputs ==
    {[s \in Sources |->
        CASE s = "weatherapi" -> CurrentOnly(TempOnly(a, s))
          [] s = "openmeteo" -> CurrentOnly(TempOnly(b, s))
          [] s = "openweather" -> CurrentOnly(TempOnly(c, s))] :
     a \in SteadyTemps, b \in SteadyTemps, c \in SteadyTemps}

\* |val - mean| <= threshold for every metric s reports
Within(res, s) ==
    \A k \in DOMAIN metrics :
        LET pairs == Reporting(res, metrics[k], 1)
        IN  \A i \in DOMAIN pairs :
                pairs[i].src = s =>
                  ~Deviates(pairs[i].val, Len(pairs), SumVals(pairs, 1), metrics[k])

\* a metric s reports is reported by another source too
ComparedOn(res, s) ==
    \E k \in DOMAIN metrics :
        LET pairs == Reporting(res, metrics[k], 1)
        IN  Len(pairs) >= 2 /\ \E i \in DOMAIN pairs : pairs[i].src = s

\* from now on the readings of one source stay within threshold
Settle ==
    /\ outcome = "idle"
    /\ steady = "none"
    /\ steady' \in Sources
    /\ UNCHANGED <<RELIABILITY, DEVIATION_COUNT, results, strategy, merged, outcome,
                   updates, adjustments, before, calls, pc, held, args, report>>

\* what the caller may pass once s is steady; the other sources agree with s,
\* their scores vary in the earlier calls
SteadyResults(s) ==
    {res \in SteadyInputs :
        /\ Within(res, s)
        /\ ComparedOn(res, s)
        /\ \A o \in Sources : Within(res, o)}

\* update_reliability_multi(results) once a source is steady
SteadyCall ==
    /\ outcome = "idle"
    /\ steady # "none"
    /\ \E res \in SteadyResults(steady) :
          LET st == Updated(RELIABILITY, DEVIATION_COUNT, res)
          IN  /\ RELIABILITY' = st.rel
              /\ DEVIATION_COUNT' = st.dev
              /\ adjustments' = st.log
              /\ before' = [rel |-> RELIABILITY, dev |-> DEVIATION_COUNT]
              /\ results' = res
              /\ updates' = 1
              /\ outcome' = "returned"
    /\ UNCHANGED <<strategy, merged, calls, pc, held, args, report, steady>>

\* the updates before a source is steady
EarlierCall == steady = "none" /\ ScenarioCall

NextSteady == EarlierCall \/ Settle \/ SteadyCall \/ Return

\* a call is made, or a call ends, while a source is steady
Proceeds ==
    /\ steady # "none"
    /\ \E o \in {"idle", "returned"} : o # outcome /\ outcome' = o

\* the caller goes on calling, and every call ends
SpecSteady == Init /\ [][NextSteady]_vars /\ WF_outcome(Proceeds)

----------------------------------------------------------------------------
(* Forecast orchestrator: collect_sources and prepare_forecast *)

Strategies == {"best", "avg", "dynamic", "weighted", "other"}

\* the current readings a fetch may hand back: weatherapi always computes a
\* wind speed, openmeteo never has humidity or pressure
CurrentsOf(s) ==
    CASE s = "weatherapi" ->
           {EmptyCur, Cur(Some(300), Some(500), Some(10100), Some(20), s),
            Cur(None, Some(500), Some(10100), Some(20), s)}
      [] s = "openmeteo" ->
           {Cur(Some(305), None, None, Some(20), s),
            Cur(None, None, None, Some(60), s)}
      [] s = "openweather" ->
           {Cur(Some(300), Some(500), Some(10100), Some(20), s),
            Cur(Some(450), Some(800), Some(10300), Some(80), s)}

BaseTemp(s) ==
    CASE s = "weatherapi" -> 300 [] s = "openmeteo" -> 305 [] s = "openweather" -> 450

OneRow(s) == DF(<<Row(Some(1), Some(BaseTemp(s)), Some(s))>>)

\* the hourly and daily frames a fetch may hand back: none, both, and for
\* weatherapi also hours without days
SeriesOf(s) ==
    { [hourly |-> EmptyDF, daily |-> EmptyDF],
      [hourly |-> OneRow(s), daily |-> OneRow(s)] } \cup
    IF s = "weatherapi" THEN {[hourly |-> OneRow(s), daily |-> EmptyDF]} ELSE {}

\* _safe_fetch(source, lat, lon): the three fetches, or {} when one raised
safe_fetch(s) ==
    {FetchFailed} \cup
    {Fetched(c, f.hourly, f.daily) : c \in CurrentsOf(s), f \in SeriesOf(s)}

\* variant: the name is handed to merge_sources as it came
merge_by_name(strat, res, rel) ==
    IF strat = "dynamic" THEN merge_sources_dynamic(res, rel)
    ELSE IF strat = "weighted" THEN merge_sources_weighted(res, rel)
    ELSE merge_sources(res, strat)

\* variant: the update runs first, the merge reads the scores it left
merge_after_update(strat, res, rel) ==
    LET now == Updated(rel, InitDEVIATION_COUNT, res).rel
    IN  IF strat \in {"best", "avg"} THEN merge_sources(res, strat)
        ELSE IF strat = "dynamic" THEN merge_sources_dynamic(res, now)
        ELSE IF strat = "weighted" THEN merge_sources_weighted(res, now)
        ELSE merge_sources(res, "best")

\* the if / elif / else chain of prepare_forecast that picks the merger
merge_by_strategy(strat, res, rel) ==
    IF strat \in {"best", "avg"} THEN merge_sources(res, strat)
    ELSE IF strat = "dynamic" THEN merge_sources_dynamic(res, rel)
    ELSE IF strat = "weighted" THEN merge_sources_weighted(res, rel)
    ELSE merge_sources(res, "best")

\* prepare_forecast(lat, lon, strategy), with `res` what collect_sources returned
prepare_forecast(strat, res) ==
    LET m == merge_by_strategy(strat, res, RELIABILITY)
        st == Updated(RELIABILITY, DEVIATION_COUNT, res)
    IN  /\ results' = res
        /\ strategy' = strat
        /\ before' = [rel |-> RELIABILITY, dev |-> DEVIATION_COUNT]
        /\ calls' = calls + 1
        /\ IF m.raised
           THEN /\ outcome' = "raised"
                /\ merged' = NoBundle
                /\ updates' = 0
                /\ adjustments' = <<>>
                /\ UNCHANGED <<RELIABILITY, DEVIATION_COUNT>>
           ELSE /\ outcome' = "returned"
                /\ merged' = m.bundle
                /\ updates' = 1
                /\ adjustments' = st.log
                /\ RELIABILITY' = st.rel
                /\ DEVIATION_COUNT' = st.dev
        /\ UNCHANGED <<pc, held, args, report, steady>>

ForecastCall ==
    /\ outcome = "idle"
    /\ calls < MaxCalls
    /\ \E strat \in Strategies :
       \E a \in safe_fetch("weatherapi"), b \in safe_fetch("openmeteo"),
          c \in safe_fetch("openweather") :
          prepare_forecast(strat,
              [s \in Sources |->
                  CASE s = "weatherapi" -> a [] s = "openmeteo" -> b
                    [] s = "openweather" -> c])

Next == ForecastCall \/ Return

Spec == Init /\ [][Next]_vars

----------------------------------------------------------------------------
(* Two threads inside update_reliability_multi.  The module takes no lock;  *)
(* `RELIABILITY[src] = max(RELIABILITY[src] - 0.2, 0.0)` loads the score,   *)
(* calls max and stores the result, `DEVIATION_COUNT[src] += 1` loads and   *)
(* stores, and the interpreter may switch threads between load and store.   *)

Threads == {1, 2}

RaceTemps == {Some(300), Some(450)}

\* arguments of the racing calls: weatherapi and openmeteo report a temperature
RaceInputs ==
    {[s \in Sources |->
        CASE s = "weatherapi" -> CurrentOnly(TempOnly(t, s))
          [] s = "openmeteo" -> CurrentOnly(TempOnly(Some(300), s))
          [] s = "openweather" -> FetchFailed] : t \in RaceTemps}

\* the (source, kind) evaluations of one call, in the order of the loops;
\* they depend on the argument only, never on the tracker
Evaluations(res) ==
    LET log == Updated(InitRELIABILITY, InitDEVIATION_COUNT, res).log
    IN  [k \in 1..Len(log) |-> [src |-> log[k].src, kind |-> log[k].kind]]

Advance(t) ==
    LET rest == Tail(held[t].todo)
    IN  /\ held' = [held EXCEPT ![t].todo = rest]
        /\ pc' = [pc EXCEPT ![t] = IF rest = <<>> THEN "done" ELSE "load"]

Start(t) ==
    /\ pc[t] = "idle"
    /\ \E r \in RaceInputs :
          /\ held' = [held EXCEPT ![t] = [res |-> r, todo |-> Evaluations(r), loaded |-> 0]]
          /\ pc' = [pc EXCEPT ![t] = IF Evaluations(r) = <<>> THEN "done" ELSE "load"]
    /\ UNCHANGED <<RELIABILITY, DEVIATION_COUNT, results, strategy, merged, outcome,
                   updates, adjustments, before, calls, args, report, steady>>

\* the load of RELIABILITY[src]
LoadScore(t) ==
    /\ pc[t] = "load"
    /\ held' = [held EXCEPT ![t].loaded = RELIABILITY[Head(held[t].todo).src]]
    /\ pc' = [pc EXCEPT ![t] = "store"]
    /\ UNCHANGED <<RELIABILITY, DEVIATION_COUNT, results, strategy, merged, outcome,
                   updates, adjustments, before, calls, args, report, steady>>

\* the store of RELIABILITY[src]
StoreScore(t) ==
    /\ pc[t] = "store"
    /\ LET e == Head(held[t].todo)
       IN  IF e.kind = "down"
           THEN /\ RELIABILITY' = [RELIABILITY EXCEPT ![e.src] = Lowered(held[t].loaded)]
                /\ pc' = [pc EXCEPT ![t] = "loadcount"]
                /\ UNCHANGED held
           ELSE /\ RELIABILITY' = [RELIABILITY EXCEPT ![e.src] = Raised(held[t].loaded)]
                /\ Advance(t)
    /\ UNCHANGED <<DEVIATION_COUNT, results, strategy, merged, outcome,
                   updates, adjustments, before, calls, args, report, steady>>

\* the load of DEVIATION_COUNT[src]
LoadCount(t) ==
    /\ pc[t] = "loadcount"
    /\ held' = [held EXCEPT ![t].loaded = DEVIATION_COUNT[Head(held[t].todo).src]]
    /\ pc' = [pc EXCEPT ![t] = "storecount"]
    /\ UNCHANGED <<RELIABILITY, DEVIATION_COUNT, results, strategy, merged, outcome,
                   updates, adjustments, before, calls, args, report, steady>>

\* the store of DEVIATION_COUNT[src]
StoreCount(t) ==
    /\ pc[t] = "storecount"
    /\ DEVIATION_COUNT' = [DEVIATION_COUNT EXCEPT
                              ![Head(held[t].todo).src] = Counted(held[t].loaded)]
    /\ Advance(t)
    /\ UNCHANGED <<RELIABILITY, results, strategy, merged, outcome,
                   updates, adjustments, before, calls, args, report, steady>>

NextRace ==
    \E t \in Threads :
        Start(t) \/ LoadScore(t) \/ StoreScore(t) \/ LoadCount(t) \/ StoreCount(t)

SpecRace == Init /\ [][NextRace]_vars

----------------------------------------------------------------------------
(* The mergers called on their own, on series of one or two timestamps.     *)
(* The scores are ones the tracker reaches: the initial ones; 1.0/1.0/0.6   *)
(* after one update in which weatherapi failed and the other two agreed;    *)
(* 0.0/0.0/0.0 after five updates in which all three disagreed.             *)

SeriesScores ==
    { InitRELIABILITY,
      [s \in Sources |-> CASE s = "weatherapi" -> 10 [] s = "openmeteo" -> 10
                            [] s = "openweather" -> 6],
      [s \in Sources |-> 0] }

HourTemp(s) ==
    CASE s = "weatherapi" -> 200 [] s = "openmeteo" -> 300 [] s = "openweather" -> 260

HourPressure(s) ==
    CASE s = "weatherapi" -> 10100 [] s = "openmeteo" -> 10300 [] s = "openweather" -> 10200

\* openmeteo's frames carry no description
HourDesc(s) ==
    CASE s = "weatherapi" -> Some("rain") [] s = "openmeteo" -> None
      [] s = "openweather" -> Some("clear")

HourRow(s, t) == FullRow(Some(t), Some(HourTemp(s)), Some(HourPressure(s)), HourDesc(s), Some(s))

HourlyOf(s) == { EmptyDF, DF(<<HourRow(s, 1)>>), DF(<<HourRow(s, 1), HourRow(s, 2)>>),
                 DF(<<HourRow(s, 2)>>) }

DailyOf(s) == { EmptyDF, DF(<<HourRow(s, 1)>>) }

\* an hour for which the source has no temperature
SparseRow(s, t) == FullRow(Some(t), None, Some(HourPressure(s)), HourDesc(s), Some(s))

\* openweather's frame may lack the temperature of an hour
SparseHourlyOf(s) ==
    IF s = "openweather" THEN {DF(<<SparseRow(s, 1), HourRow(s, 2)>>)} ELSE {}

SeriesFetch(s) ==
    {FetchFailed} \cup
    {Fetched(EmptyCur, h, d) : h \in HourlyOf(s) \cup SparseHourlyOf(s), d \in DailyOf(s)}

InitSeries ==
    /\ RELIABILITY \in SeriesScores
    /\ DEVIATION_COUNT = InitDEVIATION_COUNT
    /\ results = NoResults
    /\ strategy = "none"
    /\ merged = NoBundle
    /\ outcome = "idle"
    /\ updates = 0
    /\ adjustments = <<>>
    /\ before = [rel |-> RELIABILITY, dev |-> InitDEVIATION_COUNT]
    /\ calls = 0
    /\ pc = <<"idle", "idle">>
    /\ held = <<NoJob, NoJob>>
    /\ args = NoArgs
    /\ report = NoReport
    /\ steady = "none"

\* variant: a merger that also scores the sources it was handed
merge_and_score(strat, res) ==
    LET m == merge_by_strategy(strat, res, RELIABILITY)
        st == Updated(RELIABILITY, DEVIATION_COUNT, res)
    IN  /\ results' = res
        /\ strategy' = strat
        /\ before' = [rel |-> RELIABILITY, dev |-> DEVIATION_COUNT]
        /\ outcome' = IF m.raised THEN "raised" ELSE "returned"
        /\ merged' = IF m.raised THEN NoBundle ELSE m.bundle
        /\ RELIABILITY' = st.rel
        /\ DEVIATION_COUNT' = st.dev
        /\ UNCHANGED <<updates, adjustments, calls, pc, held, args, report, steady>>

\* one of merge_sources(results, "best" / "avg"), merge_sources_dynamic(results),
\* merge_sources_weighted(results), called directly
merge_call(strat, res) ==
    LET m == merge_by_strategy(strat, res, RELIABILITY)
    IN  /\ results' = res
        /\ strategy' = strat
        /\ before' = [rel |-> RELIABILITY, dev |-> DEVIATION_COUNT]
        /\ outcome' = IF m.raised THEN "raised" ELSE "returned"
        /\ merged' = IF m.raised THEN NoBundle ELSE m.bundle
        /\ UNCHANGED <<RELIABILITY, DEVIATION_COUNT, updates, adjustments, calls,
                       pc, held, args, report, steady>>

MergeCall ==
    /\ outcome = "idle"
    /\ \E strat \in {"best", "avg", "dynamic", "weighted"} :
       \E a \in SeriesFetch("weatherapi"), b \in SeriesFetch("openmeteo"),
          c \in SeriesFetch("openweather") :
          merge_call(strat,
              [s \in Sources |->
                  CASE s = "weatherapi" -> a [] s = "openmeteo" -> b
                    [] s = "openweather" -> c])

\* the frames a caller may put into dfs
EnsembleFrames == {NoneDF} \cup UNION {HourlyOf(s) : s \in Sources}

FrameLists == UNION {[1..n -> EnsembleFrames] : n \in 0..MaxFrames}

EnsembleWeights == {None, Some(<<10, 30>>), Some(<<10, 30, 20>>), Some(<<0, 0>>)}

\* hourly_raw = weighted_ensemble(dfs, weights)
ensemble_call(dfs, w) ==
    LET e == weighted_ensemble(dfs, w)
    IN  /\ args' = [dfs |-> dfs, weights |-> w]
        /\ strategy' = "ensemble"
        /\ outcome' = IF e.raised THEN "raised" ELSE "returned"
        /\ merged' = [current |-> EmptyCur, hourly |-> e.frame, daily |-> NoneDF]
        /\ before' = [rel |-> RELIABILITY, dev |-> DEVIATION_COUNT]
        /\ UNCHANGED <<RELIABILITY, DEVIATION_COUNT, results, updates, adjustments,
                       calls, pc, held, report, steady>>

EnsembleCall ==
    /\ outcome = "idle"
    /\ \E dfs \in FrameLists, w \in EnsembleWeights : ensemble_call(dfs, w)

NextSeries == MergeCall \/ EnsembleCall \/ Return

SpecSeries == InitSeries /\ [][NextSeries]_vars

----------------------------------------------------------------------------
(* The functions of the module called one after another by a program that   *)
(* imports it: update_reliability_multi, the mergers on current readings,   *)
(* collect_sources, reliability_report.  The updates are those of the       *)
(* temperature scenario; they wear the scores down to the 0.0 floor.        *)

\* the current readings handed to a merger or fetched by collect_sources
FirstReadings(s) ==
    {EmptyCur} \cup
    IF s = "openmeteo" THEN {Cur(Some(300), None, None, None, s)}
    ELSE {Cur(Some(300), Some(500), Some(10100), Some(20), s)}

CurrentResults ==
    {[s \in Sources |->
        CASE s = "weatherapi" -> CurrentOnly(a)
          [] s = "openmeteo" -> CurrentOnly(b)
          [] s = "openweather" -> CurrentOnly(c)] :
     a \in FirstReadings("weatherapi"), b \in FirstReadings("openmeteo"),
     c \in FirstReadings("openweather")}

\* a merger called directly on current readings
CurrentMerge ==
    /\ outcome = "idle"
    /\ \E strat \in {"best", "avg", "dynamic", "weighted"} :
       \E res \in CurrentResults : merge_call(strat, res)

\* results = collect_sources(lat, lon): a source whose fetch raised has {}
CollectCall ==
    /\ outcome = "idle"
    /\ \E res \in CurrentResults, failed \in SUBSET Sources :
          /\ results' = [s \in Sources |-> IF s \in failed THEN FetchFailed ELSE res[s]]
          /\ strategy' = "collect_sources"
          /\ outcome' = "returned"
          /\ before' = [rel |-> RELIABILITY, dev |-> DEVIATION_COUNT]
    /\ UNCHANGED <<RELIABILITY, DEVIATION_COUNT, merged, updates, adjustments, calls,
                   pc, held, args, report, steady>>

\* the rows of the frame reliability_report() builds, in the order of
\* RELIABILITY.keys()
reliability_report(rel, dev) ==
    [k \in 1..Len(SrcOrder) |->
        [source |-> SrcOrder[k],
         reliability_score |-> rel[SrcOrder[k]],
         deviation_count |-> dev[SrcOrder[k]]]]

ReportCall ==
    /\ outcome = "idle"
    /\ report' = [fn |-> "reliability_report", raised |-> FALSE, nodata |-> FALSE,
                  rows |-> reliability_report(RELIABILITY, DEVIATION_COUNT)]
    /\ strategy' = "reliability_report"
    /\ outcome' = "returned"
    /\ before' = [rel |-> RELIABILITY, dev |-> DEVIATION_COUNT]
    /\ UNCHANGED <<RELIABILITY, DEVIATION_COUNT, results, merged, updates, adjustments,
                   calls, pc, held, args, steady>>

NextModule == ScenarioCall \/ CurrentMerge \/ CollectCall \/ ReportCall \/ Return

SpecModule == Init /\ [][NextModule]_vars

----------------------------------------------------------------------------
(* The functions that read a merged bundle: generate_bulletin               *)
(* (services/bulletin.py), detect_alerts (api/weather_services.py),         *)
(* check_storm_alert, check_unusual_alert.  Each is followed as far as its  *)
(* first raise or its return.  An empty frame is pd.DataFrame(), which has  *)
(* no columns; a frame with rows has the columns of FullRow, so it has no   *)
(* rain and no wind_speed column; a current reading has the keys of Cur,    *)
(* and the ones the clients build have a rain key as well.                  *)

\* "ts" in df.columns, for a frame that is not None
HasTs(df) == df.rows # <<>>

\* rain_val after the loop over the rain keys of `current`: weatherapi and
\* openweather always store a float, openmeteo stores None, the dicts built
\* by avg and weighted have none of the keys
RainOf(cur) ==
    IF cur.source \in {Some("weatherapi"), Some("openweather")} THEN Some(0) ELSE None

Raises(fn) == [fn |-> fn, raised |-> TRUE, nodata |-> FALSE]

Returns(fn, nodata) == [fn |-> fn, raised |-> FALSE, nodata |-> nodata]

\* generate_bulletin(region_name, hourly_df, daily_df, current): the HIỆN TẠI
\* block, then hourly_df.copy() and hourly_df["ts"], then the 10-day block,
\* where daily_sorted is bound only when daily_df has rows and a ts column
generate_bulletin(hourly, daily, current) ==
    LET fn == "generate_bulletin"
    IN  \* rain_val is still None at `rain_val > 0`; hourly_df.columns of None
        IF Truthy(current) /\ RainOf(current) = None THEN Raises(fn)
        ELSE IF ~hourly.isdf THEN Raises(fn)
        ELSE IF ~HasTs(hourly) THEN Raises(fn)
        ELSE IF ~daily.isdf THEN Raises(fn)
        ELSE IF daily.rows = <<>> \/ ~HasTs(daily) THEN Raises(fn)
        ELSE Returns(fn, FALSE)

HeatAlert == 350

RECURSIVE AnyHot(_, _)
AnyHot(rows, i) ==
    IF i > Len(rows) THEN FALSE
    ELSE (rows[i].temp # None /\ rows[i].temp[1] >= HeatAlert) \/ AnyHot(rows, i + 1)

\* detect_alerts(hourly_df, daily_df, current): the list of alerts is empty
\* unless a row or the current reading is hot
detect_alerts(hourly, daily, current) ==
    Returns("detect_alerts",
            ~ \/ NonEmptyDF(hourly) /\ AnyHot(hourly.rows, 1)
              \/ Truthy(current) /\ current.temp # None /\ current.temp[1] > HeatAlert)

STORM_WIND_ALERT == 170

STORM_PRESSURE_ALERT == 9900

\* check_storm_alert(current, daily_df)
check_storm_alert(current, daily) ==
    Returns("check_storm_alert",
            ~ \/ current.wind_speed # None /\ current.wind_speed[1] >= STORM_WIND_ALERT
              \/ current.pressure # None /\ current.pressure[1] <= STORM_PRESSURE_ALERT)

\* the descriptions check_unusual_alert looks for
UNUSUAL_EVENTS == {Some("thunder")}

RECURSIVE AnyUnusual(_, _)
AnyUnusual(rows, i) ==
    IF i > Len(rows) THEN FALSE
    ELSE rows[i].weather_desc \in UNUSUAL_EVENTS \/ AnyUnusual(rows, i + 1)

\* check_unusual_alert(current, hourly_df, daily_df)
check_unusual_alert(current, hourly, daily) ==
    Returns("check_unusual_alert",
            ~ \/ NonEmptyDF(hourly) /\ AnyUnusual(hourly.rows, 1)
              \/ NonEmptyDF(daily) /\ AnyUnusual(daily.rows, 1))

\* the bundles handed to the four functions
BundleCurrents ==
    { EmptyCur,
      [present |-> TRUE, temp |-> None, humidity |-> None, pressure |-> None,
       wind_speed |-> None, source |-> Some("avg")],
      Cur(Some(300), Some(500), Some(10100), Some(20), "weatherapi"),
      Cur(Some(360), Some(800), Some(9800), Some(180), "openweather") }

BundleFrames ==
    { NoneDF, EmptyDF, DF(<<HourRow("weatherapi", 1)>>),
      DF(<<FullRow(Some(1), Some(360), Some(9800), Some("thunder"), Some("openweather"))>>) }

Bundles == [current : BundleCurrents, hourly : BundleFrames, daily : BundleFrames]

\* one of the four functions is called on the bundle b
reader_call(b, r) ==
    /\ merged' = b
    /\ report' = r
    /\ outcome' = IF r.raised THEN "raised" ELSE "returned"
    /\ UNCHANGED <<RELIABILITY, DEVIATION_COUNT, results, strategy, updates,
                   adjustments, before, calls, pc, held, args, steady>>

BulletinCall ==
    /\ outcome = "idle"
    /\ \E b \in Bundles : reader_call(b, generate_bulletin(b.hourly, b.daily, b.current))

DetectCall ==
    /\ outcome = "idle"
    /\ \E b \in Bundles : reader_call(b, detect_alerts(b.hourly, b.daily, b.current))

StormCall ==
    /\ outcome = "idle"
    /\ \E b \in Bundles : reader_call(b, check_storm_alert(b.current, b.daily))

UnusualCall ==
    /\ outcome = "idle"
    /\ \E b \in Bundles : reader_call(b, check_unusual_alert(b.current, b.hourly, b.daily))

NextReaders == BulletinCall \/ DetectCall \/ StormCall \/ UnusualCall \/ Return

SpecReaders == Init /\ [][NextReaders]_vars

----------------------------------------------------------------------------
(* interpolate_to_24h, in its two copies: api/weather_services.py (the one  *)
(* the API imports) and services/bulletin.py.  A timestamp is a number of   *)
(* half hours since 00:00 UTC of day 0, so an odd one lies off the hourly   *)
(* grid; an unparsable one is None (NaT after errors="coerce").  A frame    *)
(* here carries the set of its columns; a row has a field for every column  *)
(* name, the field of a column the frame lacks is not read.  A number is    *)
(* Some(v) or a pair <<numerator, denominator>>; a column holds floats or   *)
(* NaN (object columns are not modelled).                                   *)

HoursPerDay == 24

TicksPerHour == 2

TicksPerDay == HoursPerDay * TicksPerHour

HF(cols, rows) == [isdf |-> TRUE, cols |-> cols, rows |-> rows]

HRow(t, temp, rain, wind, hum, desc) ==
    [ts |-> t, temp |-> temp, rain |-> rain, wind_speed |-> wind,
     humidity |-> hum, weather_desc |-> desc]

\* the list numeric_cols is drawn from: weather_services.py line 38
ApiNumeric == {"temp", "rain", "wind_speed"}

\* the same list in bulletin.py line 133
BulletinNumeric == {"temp", "rain", "wind_speed", "humidity"}

\* a number as a fraction
Frac(x) == IF Len(x) = 1 THEN <<x[1], 1>> ELSE x

\* df.dropna(subset=["ts"]): the rows with a parsable timestamp
RECURSIVE Parsed(_, _)
Parsed(rows, i) ==
    IF i > Len(rows) THEN <<>>
    ELSE (IF rows[i].ts = None THEN <<>> ELSE <<rows[i]>>) \o Parsed(rows, i + 1)

Ticks(rows) == {rows[k].ts[1] : k \in DOMAIN rows}

\* the index has two equal labels: reindex raises ValueError
HasDuplicates(rows) == Cardinality(Ticks(rows)) < Len(rows)

\* the hours of full_range: from start.normalize() to end.normalize() + 23 h
FullRange(rows) ==
    LET first == (MinOf(Ticks(rows)) \div TicksPerDay) * HoursPerDay
        last == (MaxOf(Ticks(rows)) \div TicksPerDay) * HoursPerDay + (HoursPerDay - 1)
    IN  [k \in 1..(last - first + 1) |-> first + k - 1]

\* the row labelled t (the labels are distinct)
RowAt(rows, t) == rows[CHOOSE k \in DOMAIN rows : rows[k].ts[1] = t]

\* the hours at which the reindexed column has a value: a row sits exactly on
\* that hour and its value is not NaN
KnownHours(rows, col) ==
    {t \div TicksPerHour : t \in {u \in Ticks(rows) :
                                     /\ u % TicksPerHour = 0
                                     /\ RowAt(rows, u)[col] # None}}

\* interpolate(method="linear").ffill().bfill() at hour h: the value, the
\* point on the line between the two values around h, the nearest value at
\* an edge, NaN when the whole column is NaN
Filled(rows, col, h) ==
    LET K == KnownHours(rows, col)
        L == {k \in K : k <= h}
        R == {k \in K : k >= h}
        at(k) == Frac(RowAt(rows, k * TicksPerHour)[col])
    IN  IF K = {} THEN None
        ELSE IF L = {} THEN at(MinOf(R))
        ELSE IF R = {} THEN at(MaxOf(L))
        ELSE LET l == MaxOf(L)
                 r == MinOf(R)
             IN  IF l = r THEN at(l)
                 ELSE <<at(l)[1] * at(r)[2] * (r - h) + at(r)[1] * at(l)[2] * (h - l),
                        at(l)[2] * at(r)[2] * (r - l)>>

\* reindex(full_range, method="nearest") at hour h: the description of the
\* row nearest in time, the later one of two equally near
Nearest(rows, h) ==
    LET t == h * TicksPerHour
        best == CHOOSE u \in Ticks(rows) :
                    \A v \in Ticks(rows) :
                        \/ Abs(u - t) < Abs(v - t)
                        \/ Abs(u - t) = Abs(v - t) /\ u >= v
    IN  RowAt(rows, best).weather_desc

Failed(error) == [raised |-> TRUE, error |-> error, frame |-> NoneDF]

\* the body both copies share, `numeric` being the list numeric_cols is drawn from
interpolate(df, numeric) ==
    LET rows == Parsed(df.rows, 1)
        cols == df.cols \cap numeric
        hours == FullRange(rows)
        value(c, h) == IF c \in cols THEN Filled(rows, c, h) ELSE None
    IN  IF ~df.isdf \/ df.rows = <<>> \/ df.cols = {} THEN Failed("empty")
        ELSE IF "ts" \notin df.cols THEN Failed("no ts column")
        ELSE IF rows = <<>> THEN Failed("no valid time")
        ELSE IF cols = {} THEN Failed("missing required columns")
        ELSE IF HasDuplicates(rows) THEN Failed("duplicate labels")
        ELSE [raised |-> FALSE, error |-> "",
              frame |->
                HF({"ts"} \cup cols \cup (df.cols \cap {"weather_desc"}),
                   [k \in DOMAIN hours |->
                      HRow(Some(hours[k] * TicksPerHour),
                           value("temp", hours[k]), value("rain", hours[k]),
                           value("wind_speed", hours[k]), value("humidity", hours[k]),
                           IF "weather_desc" \in df.cols THEN Nearest(rows, hours[k])
                           ELSE None)])]

\* api.weather_services.interpolate_to_24h(hourly_df)
interpolate_to_24h(df) == interpolate(df, ApiNumeric)

\* services.bulletin.interpolate_to_24h(hourly_df): no test for the ts column,
\* hourly_df["ts"] raises KeyError
bulletin_interpolate_to_24h(df) == interpolate(df, BulletinNumeric)

----------------------------------------------------------------------------
(* The normalizer called on its own.  The frames are ones the clients       *)
(* build or hand on: rows on the hour (03:00, 09:00, next day 09:00), rows  *)
(* on the half hour (weatherapi's time_epoch in a zone whose offset is not  *)
(* a whole number of hours), two rows with one timestamp (weatherapi's      *)
(* time_epoch default of 0), a timestamp that does not parse, values that   *)
(* are missing, frames cut down to some of the columns, a complete day.     *)

Stamps ==
    { <<>>, <<None>>, <<Some(6)>>, <<Some(6), Some(18)>>, <<Some(18), Some(6)>>,
      <<Some(6), Some(6)>>, <<Some(7), Some(9)>>, <<Some(6), None, Some(66)>>,
      <<Some(6), Some(7), Some(18)>> }

ColumnSets ==
    { {"ts", "temp", "rain", "wind_speed", "humidity", "weather_desc"},
      {"ts", "temp", "rain", "wind_speed"},
      {"ts", "temp", "humidity", "weather_desc"},
      {"ts", "humidity", "weather_desc"},
      {"ts", "temp"},
      {"ts"},
      {"temp", "rain"} }

\* which values are missing: none, those of the first row, every temperature
Patterns == {"full", "gap", "null"}

RowDesc(k) == CASE k = 1 -> Some("rain") [] k = 2 -> Some("clear") [] OTHER -> None

PatternRow(t, k, pat) ==
    HRow(t,
         IF pat = "null" \/ (pat = "gap" /\ k = 1) THEN None ELSE Some(200 + 40 * k),
         IF pat = "gap" /\ k = 1 THEN None ELSE Some(5 * k),
         IF pat = "gap" /\ k = 1 THEN None ELSE Some(30 + 10 * k),
         IF pat = "gap" /\ k = 1 THEN None ELSE Some(500 + 100 * k),
         RowDesc(k))

\* one record for each hour of day 0, nothing missing
CompleteDay ==
    HF({"ts", "temp", "rain", "wind_speed", "humidity", "weather_desc"},
       [k \in 1..HoursPerDay |->
          HRow(Some((k - 1) * TicksPerHour), Some(200 + k), Some(0), Some(30),
               Some(600 + k), Some("clear"))])

HourlyInputs ==
    {NoneDF, CompleteDay} \cup
    {HF(cols, [k \in DOMAIN st |-> PatternRow(st[k], k, pat)]) :
        st \in Stamps, cols \in ColumnSets, pat \in Patterns}

NormalizerNames == {"interpolate_to_24h", "bulletin.interpolate_to_24h"}

\* the copy of the function that goes by the name fn
normalizer(fn, df) ==
    IF fn = "interpolate_to_24h" THEN interpolate_to_24h(df)
    ELSE bulletin_interpolate_to_24h(df)

\* hourly_24h = interpolate_to_24h(hourly)
normalize_call(fn, df) ==
    LET r == normalizer(fn, df)
    IN  /\ args' = [dfs |-> <<df>>, weights |-> None]
        /\ strategy' = fn
        /\ outcome' = IF r.raised THEN "raised" ELSE "returned"
        /\ merged' = [current |-> EmptyCur, hourly |-> r.frame, daily |-> NoneDF]
        /\ report' = [fn |-> fn, raised |-> r.raised, nodata |-> FALSE,
                      error |-> r.error]
        /\ UNCHANGED <<RELIABILITY, DEVIATION_COUNT, results, updates, adjustments,
                       before, calls, pc, held, steady>>

ApiNormalize ==
    /\ outcome = "idle"
    /\ \E df \in HourlyInputs : normalize_call("interpolate_to_24h", df)

BulletinNormalize ==
    /\ outcome = "idle"
    /\ \E df \in HourlyInputs : normalize_call("bulletin.interpolate_to_24h", df)

\* the series a call returned is handed to the same function once more
NormalizeAgain ==
    /\ outcome = "returned"
    /\ strategy \in NormalizerNames
    /\ args.dfs[1] # merged.hourly
    /\ normalize_call(strategy, merged.hourly)

NextNormalizer == ApiNormalize \/ BulletinNormalize \/ NormalizeAgain \/ Return

SpecNormalizer == Init /\ [][NextNormalizer]_vars

----------------------------------------------------------------------------
(* Vocabulary of the properties: what the `results` of a call say *)

MetricSet == {metrics[k] : k \in DOMAIN metrics}

MetricIndex(m) == CHOOSE k \in DOMAIN metrics : metrics[k] = m

Reports(res, s, m) == GetCurrent(res[s]).present /\ GetCurrent(res[s])[m] # None

Reporters(res, m) == {s \in Sources : Reports(res, s, m)}

ValueOf(res, s, m) == GetCurrent(res[s])[m][1]

RECURSIVE SetSum(_, _, _)
SetSum(res, m, S) ==
    IF S = {} THEN 0
    ELSE LET s == CHOOSE x \in S : TRUE
         IN  ValueOf(res, s, m) + SetSum(res, m, S \ {s})

\* at least two sources report m, so the sources are compared on m
Compared(res, m) == Cardinality(Reporters(res, m)) >= 2

\* s is further than the threshold from the mean of the sources reporting m
Outlier(res, s, m) ==
    LET R == Reporters(res, m)
        n == Cardinality(R)
    IN  Abs(n * ValueOf(res, s, m) - SetSum(res, m, R)) > n * thresholds[m]

ExceedCount(res, s) ==
    Cardinality({m \in MetricSet :
                    Compared(res, m) /\ Reports(res, s, m) /\ Outlier(res, s, m)})

HasReading(res, s) == \E m \in MetricSet : Reports(res, s, m)

WithinAll(res, s) == \A m \in MetricSet : Reports(res, s, m) => ~Outlier(res, s, m)

ComparedOnSome(res, s) == \E m \in MetricSet : Reports(res, s, m) /\ Compared(res, m)

UpdateDone == outcome = "returned" /\ updates = 1

EntriesOf(s) == {i \in DOMAIN adjustments : adjustments[i].src = s}

EntriesFor(s, m) == {i \in EntriesOf(s) : adjustments[i].metric = m}

\* the score of s just before the adjustment at position i of the log
ScoreBefore(s, i) ==
    LET E == {j \in EntriesOf(s) : j < i}
    IN  IF E = {} THEN before.rel[s] ELSE adjustments[MaxOf(E)].to

----------------------------------------------------------------------------
(* C3: every reliability score always lies in the closed range [0.0, 2.0]. *)
C3_ScoreInRange == \A s \in Sources : RELIABILITY[s] >= 0 /\ RELIABILITY[s] <= 20

\* an increase was applied to a score that already stood at the ceiling
C3_Witness ==
    /\ UpdateDone
    /\ \E i \in DOMAIN adjustments :
          /\ adjustments[i].kind = "up"
          /\ adjustments[i].from = 20
          /\ RELIABILITY[adjustments[i].src] = 20

(* C4: in one update, for each metric reported by at least two sources,     *)
(* each reporting source receives exactly one adjustment: -0.2 (floor 0.0)  *)
(* with counter + 1 when its deviation from the mean of the reporting       *)
(* sources is strictly above the threshold, else +0.1 (ceiling 2.0) with    *)
(* the counter unchanged; the adjustments accumulate in metric order, at    *)
(* most four per source.                                                    *)
C4_OneAdjustmentPerMetric ==
    UpdateDone =>
      /\ \A s \in Sources, m \in MetricSet :
            (Compared(results, m) /\ Reports(results, s, m)) =>
              /\ Cardinality(EntriesFor(s, m)) = 1
              /\ \A i \in EntriesFor(s, m) :
                    IF Outlier(results, s, m)
                    THEN /\ adjustments[i].kind = "down"
                         /\ adjustments[i].to = Max(adjustments[i].from - 2, 0)
                    ELSE /\ adjustments[i].kind = "up"
                         /\ adjustments[i].to = Min(adjustments[i].from + 1, 20)
      /\ \A i, j \in DOMAIN adjustments :
            i < j => MetricIndex(adjustments[i].metric) <= MetricIndex(adjustments[j].metric)
      /\ \A s \in Sources :
            /\ Cardinality(EntriesOf(s)) <= 4
            /\ \A i \in EntriesOf(s) : adjustments[i].from = ScoreBefore(s, i)
            /\ RELIABILITY[s] = ScoreBefore(s, Len(adjustments) + 1)
            /\ DEVIATION_COUNT[s] = before.dev[s]
                 + Cardinality({i \in EntriesOf(s) : adjustments[i].kind = "down"})

\* a source adjusted on all four metrics of one call, both up and down
C4_Witness ==
    /\ UpdateDone
    /\ \E s \in Sources :
          /\ Cardinality(EntriesOf(s)) = 4
          /\ \E i \in EntriesOf(s) : adjustments[i].kind = "down"
          /\ \E i \in EntriesOf(s) : adjustments[i].kind = "up"

\* the readings of the scenario: A = 30.0, B = 30.5, C = 45.0, nothing else
ScenarioReadings ==
    /\ results["weatherapi"].current = Cur(Some(300), None, None, None, "weatherapi")
    /\ results["openmeteo"].current = Cur(Some(305), None, None, None, "openmeteo")
    /\ results["openweather"].current = Cur(Some(450), None, None, None, "openweather")

(* C5 as stated: with temperatures A = 30.0, B = 30.5, C = 45.0 one update  *)
(* lowers only C's score by 0.2 and raises only C's counter, and raises     *)
(* A's and B's scores by 0.1 with their counters unchanged.                 *)
C5_OnlyCPenalised ==
    (UpdateDone /\ ScenarioReadings) =>
      /\ RELIABILITY["openweather"] = Max(before.rel["openweather"] - 2, 0)
      /\ DEVIATION_COUNT["openweather"] = before.dev["openweather"] + 1
      /\ \A s \in {"weatherapi", "openmeteo"} :
            /\ RELIABILITY[s] = Min(before.rel[s] + 1, 20)
            /\ DEVIATION_COUNT[s] = before.dev[s]

(* C5 amended: the mean is 35.17, so A (5.17), B (4.67) and C (9.83) all    *)
(* deviate by more than 3.0; the update lowers each of the three scores by  *)
(* 0.2 (floor 0.0) and raises each of the three counters by 1.              *)
C5_AllThreePenalised ==
    (UpdateDone /\ ScenarioReadings) =>
      \A s \in Sources :
        /\ RELIABILITY[s] = Max(before.rel[s] - 2, 0)
        /\ DEVIATION_COUNT[s] = before.dev[s] + 1

\* the scenario ran on the initial scores 1.0 / 0.9 / 0.5
C5_Witness ==
    /\ UpdateDone
    /\ ScenarioReadings
    /\ before.rel = InitRELIABILITY
    /\ RELIABILITY["openweather"] = 3

(* C6 as stated: a source whose reading is within threshold of the          *)
(* cross-source mean for every metric it reports never loses score, and     *)
(* gains score on every call while it is below 2.0.                         *)
C6_WithinAlwaysGains ==
    UpdateDone =>
      \A s \in Sources :
        (HasReading(results, s) /\ WithinAll(results, s)) =>
          /\ RELIABILITY[s] >= before.rel[s]
          /\ before.rel[s] < 20 => RELIABILITY[s] > before.rel[s]

(* C6 amended: such a source never loses score, and gains score on every    *)
(* call in which it is below 2.0 and at least one metric it reports is      *)
(* reported by another source too.                                          *)
C6_WithinGainsWhenCompared ==
    UpdateDone =>
      \A s \in Sources :
        (HasReading(results, s) /\ WithinAll(results, s)) =>
          /\ RELIABILITY[s] >= before.rel[s]
          /\ (before.rel[s] < 20 /\ ComparedOnSome(results, s)) =>
                RELIABILITY[s] > before.rel[s]

\* a source within threshold gained while another one was penalised
C6_Witness ==
    /\ UpdateDone
    /\ \E s, t \in Sources :
          /\ WithinAll(results, s) /\ ComparedOnSome(results, s)
          /\ before.rel[s] < 20 /\ RELIABILITY[s] > before.rel[s]
          /\ ExceedCount(results, t) > 0

(* C7: a deviation counter never decreases, and an update raises it by      *)
(* exactly the number of metrics on which the source exceeded the           *)
(* threshold, also when its score already stood at 0.0.                     *)
C7_CounterCountsExceedings ==
    [][\A s \in Sources :
          /\ DEVIATION_COUNT'[s] >= DEVIATION_COUNT[s]
          /\ (outcome' = "returned" /\ updates' = 1) =>
                DEVIATION_COUNT'[s] = DEVIATION_COUNT[s] + ExceedCount(results', s)]_vars

\* a penalty was applied to a score that already stood at the floor
C7_Witness ==
    /\ UpdateDone
    /\ \E i \in DOMAIN adjustments :
          /\ adjustments[i].kind = "down"
          /\ adjustments[i].from = 0
          /\ DEVIATION_COUNT[adjustments[i].src] > before.dev[adjustments[i].src]

(* C8: a metric reported by fewer than two sources changes no score and no  *)
(* counter; an update with at most one current reading leaves the tracker   *)
(* unchanged and raises nothing.                                            *)
C8_SkippedMetricNoEffect ==
    outcome # "idle" =>
      /\ outcome = "returned"
      /\ \A m \in MetricSet :
            ~Compared(results, m) =>
               \A i \in DOMAIN adjustments : adjustments[i].metric # m
      /\ \A s \in Sources :
            ~ComparedOnSome(results, s) =>
               /\ RELIABILITY[s] = before.rel[s]
               /\ DEVIATION_COUNT[s] = before.dev[s]
      /\ Cardinality({s \in Sources : GetCurrent(results[s]).present}) <= 1 =>
            /\ RELIABILITY = before.rel
            /\ DEVIATION_COUNT = before.dev

\* one metric was skipped for its only reporter while another was compared
C8_Witness ==
    /\ UpdateDone
    /\ adjustments # <<>>
    /\ \E s \in Sources, m \in MetricSet :
          /\ Reporters(results, m) = {s}
          /\ EntriesFor(s, m) = {}
          /\ EntriesOf(s) # {}

\* the fetch of s went through and its current reading has a temperature
Succeeded(res, s) == res[s].fetched /\ Reports(res, s, "temp")

\* exactly one fetch failed, the other two succeeded
OneFailedTwoGood(res) ==
    \E f \in Sources :
        ~res[f].fetched /\ \A s \in Sources \ {f} : Succeeded(res, s)

\* the succeeding source that comes first in the fixed priority order
FirstGood(res) ==
    SrcOrder[CHOOSE i \in DOMAIN SrcOrder :
                /\ Succeeded(res, SrcOrder[i])
                /\ \A j \in DOMAIN SrcOrder : j < i => ~Succeeded(res, SrcOrder[j])]

Good(res) == {s \in Sources : Succeeded(res, s)}

RECURSIVE WeightedTemp(_, _, _)
WeightedTemp(res, w, S) ==
    IF S = {} THEN 0
    ELSE LET s == CHOOSE x \in S : TRUE
         IN  w[s] * ValueOf(res, s, "temp") + WeightedTemp(res, w, S \ {s})

RECURSIVE WeightOf(_, _)
WeightOf(w, S) ==
    IF S = {} THEN 0
    ELSE LET s == CHOOSE x \in S : TRUE IN w[s] + WeightOf(w, S \ {s})

(* C1: under each of best, avg, dynamic, weighted, when one fetch fails and *)
(* the other two succeed with a temperature, prepare_forecast raises        *)
(* nothing and returns a bundle whose current is non-null and built from    *)
(* the succeeding sources only (under best: the reading of the first        *)
(* succeeding source in priority order).                                    *)
C1_OneFailureIsContained ==
    (outcome # "idle" /\ strategy \in {"best", "avg", "dynamic", "weighted"}
       /\ OneFailedTwoGood(results)) =>
      /\ outcome = "returned"
      /\ merged.current.present
      /\ merged.current.temp # None
      /\ strategy = "best" => merged.current = results[FirstGood(results)].current
      /\ strategy = "dynamic" =>
            \E s \in Good(results) : merged.current = results[s].current
      /\ strategy = "avg" =>
            merged.current.temp = <<SetSum(results, "temp", Good(results)), 2>>
      /\ strategy = "weighted" =>
            merged.current.temp = <<WeightedTemp(results, before.rel, Good(results)),
                                    WeightOf(before.rel, Good(results))>>

(* C2: every prepare_forecast call, whatever the strategy and the data,     *)
(* performs exactly one reliability update from its own current results     *)
(* before it ends.                                                          *)
C2_UpdateOnEveryCall ==
    outcome # "idle" =>
      /\ updates = 1
      /\ \A s \in Sources :
            /\ DEVIATION_COUNT[s] = before.dev[s] + ExceedCount(results, s)
            /\ RELIABILITY[s] = ScoreBefore(s, Len(adjustments) + 1)

(* C9: when two reliability updates interleave, the final scores and        *)
(* counters are those of one of the two serial orders of the updates.       *)
C9_InterleavingIsSerializable ==
    (pc[1] = "done" /\ pc[2] = "done") =>
      LET one == Updated(InitRELIABILITY, InitDEVIATION_COUNT, held[1].res)
          oneTwo == Updated(one.rel, one.dev, held[2].res)
          two == Updated(InitRELIABILITY, InitDEVIATION_COUNT, held[2].res)
          twoOne == Updated(two.rel, two.dev, held[1].res)
      IN  \/ RELIABILITY = oneTwo.rel /\ DEVIATION_COUNT = oneTwo.dev
          \/ RELIABILITY = twoOne.rel /\ DEVIATION_COUNT = twoOne.dev

(* C10: under best the merged current is weatherapi's reading whenever it   *)
(* has a temperature, whatever the others report; otherwise the reading of  *)
(* the next source in the order weatherapi, openmeteo, openweather that     *)
(* has a temperature.                                                       *)
C10_BestTakesPrimary ==
    (outcome = "returned" /\ strategy = "best") =>
      /\ Reports(results, "weatherapi", "temp") =>
            merged.current = results["weatherapi"].current
      /\ (~Reports(results, "weatherapi", "temp")
            /\ Reports(results, "openmeteo", "temp")) =>
            merged.current = results["openmeteo"].current
      /\ (~Reports(results, "weatherapi", "temp")
            /\ ~Reports(results, "openmeteo", "temp")
            /\ Reports(results, "openweather", "temp")) =>
            merged.current = results["openweather"].current

\* weatherapi handed back a reading without temperature and lost to openmeteo,
\* although openweather had a temperature too
C10_Witness ==
    /\ outcome = "returned"
    /\ strategy = "best"
    /\ results["weatherapi"].fetched
    /\ results["weatherapi"].current.present
    /\ ~Reports(results, "weatherapi", "temp")
    /\ Reports(results, "openweather", "temp")
    /\ merged.current.source = Some("openmeteo")
    /\ merged.current.temp # results["openweather"].current.temp

----------------------------------------------------------------------------
(* Vocabulary of the merger properties *)

\* the members of S that come first in the fixed priority order
FirstIn(S) ==
    SrcOrder[CHOOSE i \in DOMAIN SrcOrder :
                /\ SrcOrder[i] \in S
                /\ \A j \in DOMAIN SrcOrder : j < i => SrcOrder[j] \notin S]

\* the members of S no other member of S outscores
MostReliable(S, rel) == {s \in S : \A t \in S : rel[t] <= rel[s]}

WithTemp(res) == Reporters(res, "temp")

WithSeries(res, key) == {s \in Sources : NonEmptyDF(GetSeries(res[s], key))}

RECURSIVE WeightedField(_, _, _, _)
WeightedField(res, w, m, S) ==
    IF S = {} THEN 0
    ELSE LET s == CHOOSE x \in S : TRUE
         IN  w[s] * ValueOf(res, s, m) + WeightedField(res, w, m, S \ {s})

\* the mean a (a pair or None) has the value num / den
IsMean(a, num, den) == a # None /\ a[2] # 0 /\ a[1] * den = num * a[2]

\* the four strategies prepare_forecast knows by name
Known == {"best", "avg", "dynamic", "weighted"}

\* no source handed back a current reading or a row of a series
AllEmpty(res) ==
    \A s \in Sources :
        /\ ~Truthy(GetCurrent(res[s]))
        /\ ~NonEmptyDF(GetSeries(res[s], "hourly"))
        /\ ~NonEmptyDF(GetSeries(res[s], "daily"))

(* C11: under dynamic the call returns a bundle whose current, hourly and   *)
(* daily are each taken from the source that has, respectively, a current   *)
(* with a temperature, a non-empty hourly series, a non-empty daily series  *)
(* and the highest reliability score held when the call started.            *)
C11_DynamicTakesMostReliable ==
    (outcome # "idle" /\ strategy = "dynamic") =>
      /\ outcome = "returned"
      /\ IF WithTemp(results) = {} THEN ~Truthy(merged.current)
         ELSE \E s \in MostReliable(WithTemp(results), before.rel) :
                 merged.current = results[s].current
      /\ IF WithSeries(results, "hourly") = {} THEN merged.hourly = NoneDF
         ELSE \E s \in MostReliable(WithSeries(results, "hourly"), before.rel) :
                 merged.hourly = results[s].hourly
      /\ IF WithSeries(results, "daily") = {} THEN merged.daily = NoneDF
         ELSE \E s \in MostReliable(WithSeries(results, "daily"), before.rel) :
                 merged.daily.rows = results[s].daily.rows

(* C12: under weighted each field of current equals the sum of value*score  *)
(* over the sum of score, taken over exactly the sources that report a      *)
(* non-null value for that field, whatever else they report; a field no     *)
(* source reports is null.                                                  *)
C12_WeightedPerField ==
    (outcome = "returned" /\ strategy = "weighted") =>
      \A m \in MetricSet :
        LET R == Reporters(results, m)
        IN  IF R = {} THEN merged.current[m] = None
            ELSE WeightOf(before.rel, R) > 0 =>
                   IsMean(merged.current[m],
                          WeightedField(results, before.rel, m, R),
                          WeightOf(before.rel, R))

(* C15: under avg each field of current is the arithmetic mean over exactly *)
(* the sources whose current reading has a non-null value for that field    *)
(* (a reading without temperature still contributes its humidity), and a    *)
(* field with no contributing source is null.                               *)
C15_AvgPerField ==
    (outcome = "returned" /\ strategy = "avg") =>
      /\ merged.current.source = Some("avg")
      /\ \A m \in MetricSet :
            LET R == Reporters(results, m)
            IN  IF R = {} THEN merged.current[m] = None
                ELSE merged.current[m] = <<SetSum(results, m, R), Cardinality(R)>>

\* weatherapi's reading had no temperature and still went into the humidity
\* mean, and no source reported a pressure
C15_Witness ==
    /\ outcome = "returned"
    /\ strategy = "avg"
    /\ Truthy(GetCurrent(results["weatherapi"]))
    /\ ~Reports(results, "weatherapi", "temp")
    /\ Reports(results, "weatherapi", "humidity")
    /\ Reporters(results, "humidity") = {"weatherapi", "openweather"}
    /\ merged.current.humidity[2] = 2
    /\ merged.current.temp # None
    /\ merged.current.temp[2] = 2

\* what `best` hands back, said without the loops
BestBundle(res) ==
    [current |-> IF WithTemp(res) = {} THEN EmptyCur
                 ELSE res[FirstIn(WithTemp(res))].current,
     hourly |-> IF WithSeries(res, "hourly") = {} THEN NoneDF
                ELSE res[FirstIn(WithSeries(res, "hourly"))].hourly,
     daily |-> IF WithSeries(res, "daily") = {} THEN NoneDF
               ELSE res[FirstIn(WithSeries(res, "daily"))].daily]

(* C16: for a strategy name outside best, avg, dynamic, weighted,           *)
(* prepare_forecast returns the bundle `best` gives on the same fetch       *)
(* results, raises nothing and still updates the reliability tracker.       *)
C16_UnknownNameIsBest ==
    (outcome # "idle" /\ strategy \notin Known) =>
      /\ outcome = "returned"
      /\ merged = BestBundle(results)
      /\ updates = 1
      /\ \A s \in Sources :
            /\ DEVIATION_COUNT[s] = before.dev[s] + ExceedCount(results, s)
            /\ RELIABILITY[s] = ScoreBefore(s, Len(adjustments) + 1)

\* an unknown name got openmeteo's daily rows, weatherapi's reading, and a
\* tracker update that changed a score
C16_Witness ==
    /\ outcome = "returned"
    /\ strategy \notin Known
    /\ merged.current.source = Some("weatherapi")
    /\ ~NonEmptyDF(GetSeries(results["weatherapi"], "daily"))
    /\ merged.daily = results["openmeteo"].daily
    /\ NonEmptyDF(merged.daily)
    /\ adjustments # <<>>
    /\ RELIABILITY # before.rel

(* C17: when every source's fetch result is empty, the bundle returned      *)
(* under each of the four strategies has a current the `has current data`   *)
(* test (a non-empty dict) treats as absent, and no hourly and no daily     *)
(* series.                                                                  *)
C17_AllEmptyGivesEmptyBundle ==
    (outcome # "idle" /\ strategy \in Known /\ AllEmpty(results)) =>
      /\ outcome = "returned"
      /\ ~Truthy(merged.current)
      /\ merged.hourly = NoneDF
      /\ merged.daily = NoneDF

----------------------------------------------------------------------------
(* Vocabulary of the series properties.  A contribution is one record of    *)
(* one input frame together with the weight of that frame.                  *)

SeriesKeys == {"hourly", "daily"}

\* the records the etl mergers read for `key`, weighted by w
Contributions(res, key, w) ==
    UNION {{[id |-> <<s, k>>, weight |-> w[s], row |-> GetSeries(res[s], key).rows[k]] :
               k \in DOMAIN GetSeries(res[s], key).rows} :
           s \in WithSeries(res, key)}

\* the weights weighted_ensemble works with
WeightsUsed(dfs, w) == IF w = None THEN DefaultWeights(Len(dfs)) ELSE w[1]

\* the records weighted_ensemble reads
EnsembleContributions(dfs, w) ==
    UNION {{[id |-> <<i, k>>, weight |-> WeightsUsed(dfs, w)[i], row |-> dfs[i].rows[k]] :
               k \in DOMAIN dfs[i].rows} :
           i \in {j \in DOMAIN dfs : NonEmptyDF(dfs[j])}}

TimestampsOf(C) == {c.row.ts : c \in C} \ {None}

At(C, t) == {c \in C : c.row.ts = t}

RECURSIVE WeightedTotal(_, _)
WeightedTotal(C, col) ==
    IF C = {} THEN 0
    ELSE LET c == CHOOSE x \in C : TRUE
         IN  c.weight * c.row[col][1] + WeightedTotal(C \ {c}, col)

RECURSIVE WeightTotal(_)
WeightTotal(C) ==
    IF C = {} THEN 0
    ELSE LET c == CHOOSE x \in C : TRUE IN c.weight + WeightTotal(C \ {c})

RowsAt(frame, t) == {k \in DOMAIN frame.rows : frame.rows[k].ts = t}

\* at every timestamp whose records all carry a temp and whose weights do not
\* sum to zero, the frame has one row and its temp is the weighted mean
IsWeightedMean(frame, C) ==
    \A t \in TimestampsOf(C) :
        (WeightTotal(At(C, t)) > 0 /\ \A c \in At(C, t) : c.row.temp # None) =>
          /\ Cardinality(RowsAt(frame, t)) = 1
          /\ \A k \in RowsAt(frame, t) :
                IsMean(frame.rows[k].temp, WeightedTotal(At(C, t), "temp"),
                       WeightTotal(At(C, t)))

\* two numbers of an output frame (pairs or None) are the same number
SameNumber(a, b) ==
    \/ a = None /\ b = None
    \/ a # None /\ b # None /\ a[1] * b[2] = b[1] * a[2]

\* the two frames have the same timestamps and the same numbers at each
SameNumbers(f, g) ==
    /\ f.isdf = g.isdf
    /\ {f.rows[k].ts : k \in DOMAIN f.rows} = {g.rows[k].ts : k \in DOMAIN g.rows}
    /\ \A i \in DOMAIN f.rows, j \in DOMAIN g.rows :
          f.rows[i].ts = g.rows[j].ts =>
            /\ SameNumber(f.rows[i].temp, g.rows[j].temp)
            /\ SameNumber(f.rows[i].pressure, g.rows[j].pressure)

\* the same numbers and the same descriptions
SameValues(f, g) ==
    /\ SameNumbers(f, g)
    /\ \A i \in DOMAIN f.rows, j \in DOMAIN g.rows :
          f.rows[i].ts = g.rows[j].ts => f.rows[i].weather_desc = g.rows[j].weather_desc

StampsOf(df) == {df.rows[k].ts : k \in DOMAIN df.rows}

\* exactly two sources have rows for `key`, with equal scores and the same
\* timestamps
TwoEqualSources(res, key, rel) ==
    \E s, t \in Sources :
        /\ s # t
        /\ WithSeries(res, key) = {s, t}
        /\ rel[s] = rel[t]
        /\ StampsOf(GetSeries(res[s], key)) = StampsOf(GetSeries(res[t], key))

\* the sources whose series for `key` is non-empty and not all-null
Usable(res, key) ==
    {s \in WithSeries(res, key) : ~AllRowsNull(GetSeries(res[s], key).rows, 1)}

UsableFrames(dfs) ==
    {i \in DOMAIN dfs : NonEmptyDF(dfs[i]) /\ ~AllRowsNull(dfs[i].rows, 1)}

(* C13: under the weighted merge of hourly and daily series, at each        *)
(* timestamp the value of a weighted field is the sum of value*weight over  *)
(* the sum of weight, taken over the sources that have a record at that     *)
(* timestamp, also when other sources lack it (temp 20 with weight 1.0 and  *)
(* temp 30 with weight 3.0 give 27.5).                                      *)
C13_SeriesWeightedMean ==
    /\ (outcome # "idle" /\ strategy = "weighted") =>
          /\ outcome = "returned"
          /\ \A key \in SeriesKeys :
                IsWeightedMean(merged[key], Contributions(results, key, before.rel))
    /\ (outcome = "returned" /\ strategy = "ensemble") =>
          IsWeightedMean(merged.hourly, EnsembleContributions(args.dfs, args.weights))

(* C14: for two sources with equal reliability scores and identical         *)
(* timestamps, the output of weighted equals the output of avg at each      *)
(* timestamp, for every numeric field of the output.                        *)
C14_WeightedEqualsAvg ==
    (outcome # "idle" /\ strategy = "weighted") =>
      \A key \in SeriesKeys :
        TwoEqualSources(results, key, before.rel) =>
          /\ outcome = "returned"
          /\ SameNumbers(merged[key], AvgSeries(results, key))

(* C18: when no source has a usable series for hourly or for daily, every   *)
(* merger (merge_sources, merge_sources_dynamic, merge_sources_weighted,    *)
(* weighted_ensemble) gives no series for that group and does not raise,    *)
(* and the group that has usable series is still merged.                    *)
C18_NoUsableSeriesIsAbsent ==
    /\ (outcome # "idle" /\ strategy \in Known
          /\ \E key \in SeriesKeys : Usable(results, key) = {}) =>
          /\ outcome = "returned"
          /\ \A key \in SeriesKeys :
                IF Usable(results, key) = {} THEN ~NonEmptyDF(merged[key])
                ELSE NonEmptyDF(merged[key])
    /\ (outcome # "idle" /\ strategy = "ensemble" /\ UsableFrames(args.dfs) = {}
          /\ Len(WeightsUsed(args.dfs, args.weights)) = Len(args.dfs)) =>
          /\ outcome = "returned"
          /\ ~NonEmptyDF(merged.hourly)

(* C20: the result of the averaging mergers (avg, weighted,                 *)
(* weighted_ensemble) is the same for every ordering of the sources: a      *)
(* permutation of the sources changes no value of an output field, number   *)
(* or weather_desc, at any timestamp.                                       *)
C20_OrderIsIrrelevant ==
    /\ (outcome = "returned" /\ strategy = "ensemble") =>
          \A p \in Permutations(DOMAIN args.dfs) :
            LET w == WeightsUsed(args.dfs, args.weights)
                e == weighted_ensemble([i \in DOMAIN args.dfs |-> args.dfs[p[i]]],
                                       Some([i \in DOMAIN args.dfs |-> w[p[i]]]))
            IN  ~e.raised /\ SameValues(e.frame, merged.hourly)
    /\ (outcome = "returned" /\ strategy \in {"avg", "weighted"}) =>
          \A p \in Permutations(Sources) :
            LET res == [s \in Sources |-> results[p[s]]]
                rel == [s \in Sources |-> before.rel[p[s]]]
            IN  \A key \in SeriesKeys :
                  SameValues(IF strategy = "avg" THEN AvgSeries(res, key)
                             ELSE IF key = "hourly" THEN WeightedSeries(res, rel, key)
                             ELSE merged[key],
                             merged[key])

\* a bundle with no current reading and no row of a series
EmptyBundle(b) == ~Truthy(b.current) /\ ~NonEmptyDF(b.hourly) /\ ~NonEmptyDF(b.daily)

(* C19: given an empty merged bundle (current empty, hourly and daily       *)
(* empty), generate_bulletin, detect_alerts, check_storm_alert and          *)
(* check_unusual_alert each return a `no data` result and never raise.      *)
C19_ReadersTolerateEmptyBundle ==
    (report.fn # "none" /\ EmptyBundle(merged)) =>
      /\ ~report.raised
      /\ report.nodata

----------------------------------------------------------------------------
(* Vocabulary of the normalizer properties *)

\* a call of one of the two copies of interpolate_to_24h has ended
Normalized24h == outcome # "idle" /\ strategy \in NormalizerNames

\* the frame handed to the normalizer
Input == args.dfs[1]

Required == {"temp", "rain", "wind_speed"}

\* the timestamps of the input that parse
InputTicks(df) == {df.rows[k].ts[1] : k \in {j \in DOMAIN df.rows : df.rows[j].ts # None}}

\* the input has a timestamp that parses and one of the required columns
ValidInput(df) ==
    /\ df.isdf
    /\ "ts" \in df.cols
    /\ InputTicks(df) # {}
    /\ df.cols \cap Required # {}

DayOf(t) == t \div TicksPerDay

\* the hours 00..23 of every day from the day of the earliest timestamp of
\* df to the day of its latest one, as timestamps
CoveredGrid(df) ==
    {(d * HoursPerDay + h) * TicksPerHour :
        d \in DayOf(MinOf(InputTicks(df)))..DayOf(MaxOf(InputTicks(df))),
        h \in 0..(HoursPerDay - 1)}

\* the frame has one record for each timestamp of G, in order of time
OnGrid(frame, G) ==
    /\ Len(frame.rows) = Cardinality(G)
    /\ \A k \in DOMAIN frame.rows :
          /\ frame.rows[k].ts # None
          /\ frame.rows[k].ts[1] \in G
          /\ \A j \in DOMAIN frame.rows : j < k => frame.rows[j].ts[1] < frame.rows[k].ts[1]

(* C21: for every hourly input with a parsable timestamp and one of the     *)
(* columns temp, rain, wind_speed, interpolate_to_24h returns exactly 24    *)
(* records (hours 00 to 23, no gap) for each day from the day of the        *)
(* earliest timestamp to the day of the latest, and no returned record has  *)
(* a null temp, rain or wind_speed.                                         *)
C21_FullDaysNoNulls ==
    (Normalized24h /\ ValidInput(Input)) =>
      /\ outcome = "returned"
      /\ OnGrid(merged.hourly, CoveredGrid(Input))
      /\ \A k \in DOMAIN merged.hourly.rows :
            \A c \in Input.cols \cap Required : merged.hourly.rows[k][c] # None

\* no two records of the frame share a timestamp
DistinctStamps(frame) ==
    \A j, k \in DOMAIN frame.rows : j # k => frame.rows[j].ts # frame.rows[k].ts

\* two of the records of df carry the same parsable timestamp
SharedStamp(df) ==
    \E j, k \in DOMAIN df.rows : j # k /\ df.rows[j].ts # None /\ df.rows[j].ts = df.rows[k].ts

(* C22: every series produced by the normalizer or by a grouping merger     *)
(* (avg, weighted, weighted_ensemble) has pairwise distinct timestamps, and *)
(* an input with two records of one timestamp is not rejected with an       *)
(* error.                                                                   *)
C22_StampsUniqueAfterNormalizing ==
    /\ (Normalized24h /\ ValidInput(Input)) =>
          /\ outcome = "returned"
          /\ DistinctStamps(merged.hourly)
    /\ (outcome = "returned" /\ strategy \in {"avg", "weighted", "ensemble"}) =>
          /\ DistinctStamps(merged.hourly)
          /\ DistinctStamps(merged.daily)

\* the input has a parsable timestamp and, besides ts, optional columns only
OnlyOptional(df) ==
    /\ df.isdf
    /\ "ts" \in df.cols
    /\ InputTicks(df) # {}
    /\ df.cols \cap Required = {}

(* C23: interpolate_to_24h fails with an error, and returns no series,      *)
(* exactly when the input is null or empty, has no record with a parsable   *)
(* timestamp, or has none of the columns temp, rain, wind_speed; an input   *)
(* whose only columns besides ts are optional ones (humidity,               *)
(* weather_desc) is rejected as `missing required columns`.                 *)
C23_FailsExactlyOnInvalidInput ==
    Normalized24h =>
      /\ outcome = "raised" <=> ~ValidInput(Input)
      /\ outcome = "raised" => merged.hourly = NoneDF
      /\ OnlyOptional(Input) =>
            /\ outcome = "raised"
            /\ report.error = "missing required columns"

NumericFields == {"temp", "rain", "wind_speed", "humidity"}

\* one record for each hour 00..23 of every covered day, nothing unparsable,
\* no null in a numeric column, and one of the required columns
Complete(df) ==
    /\ ValidInput(df)
    /\ \A k \in DOMAIN df.rows : df.rows[k].ts # None
    /\ ~SharedStamp(df)
    /\ InputTicks(df) = CoveredGrid(df)
    /\ \A k \in DOMAIN df.rows : \A c \in df.cols \cap NumericFields : df.rows[k][c] # None

\* the output has the column c and, at each timestamp of the input, the
\* input's value in it
KeepsColumn(out, df, c) ==
    /\ c \in out.cols
    /\ \A k \in DOMAIN df.rows :
          \E j \in DOMAIN out.rows :
              /\ out.rows[j].ts = df.rows[k].ts
              /\ out.rows[j][c] # None
              /\ SameNumber(Frac(out.rows[j][c]), Frac(df.rows[k][c]))

(* C24: normalizing an hourly series that is already complete returns, at   *)
(* every timestamp, the input's value for every numeric field of the input  *)
(* (temp, rain, wind_speed, and humidity when present), so normalizing      *)
(* twice equals normalizing once.                                           *)
C24_CompleteSeriesIsKept ==
    (Normalized24h /\ Complete(Input)) =>
      /\ outcome = "returned"
      /\ Len(merged.hourly.rows) = Len(Input.rows)
      /\ \A c \in Input.cols \cap NumericFields : KeepsColumn(merged.hourly, Input, c)

----------------------------------------------------------------------------
(* Vocabulary of the orchestrator properties *)

\* the reading `dynamic` picks when the scores are rel
PickedCurrent(res, rel) ==
    IF WithTemp(res) = {} THEN {EmptyCur}
    ELSE {res[s].current : s \in MostReliable(WithTemp(res), rel)}

\* the sources whose reading has a temperature and a value for m: the ones
\* the weighted merge reads for m
WeightedReporters(res, m) == {s \in WithTemp(res) : Reports(res, s, m)}

\* the tracker after this call is the tracker before it, updated once
UpdatedAfterwards ==
    /\ updates = 1
    /\ RELIABILITY = Updated(before.rel, before.dev, results).rel
    /\ DEVIATION_COUNT = Updated(before.rel, before.dev, results).dev

(* C25: within one prepare_forecast call the merge reads the reliability    *)
(* scores as they were when the call started and the update runs after the  *)
(* merge: `dynamic` orders the sources and `weighted` weighs them by the     *)
(* scores the previous calls left, so an outlier reading of call n shows in *)
(* the ordering and the weights of call n+1 first.                          *)
C25_MergeReadsScoresBeforeUpdate ==
    /\ (outcome = "returned" /\ strategy = "dynamic") =>
          /\ merged.current \in PickedCurrent(results, before.rel)
          /\ WithSeries(results, "hourly") # {} =>
                \E s \in MostReliable(WithSeries(results, "hourly"), before.rel) :
                    merged.hourly = results[s].hourly
          /\ UpdatedAfterwards
    /\ (outcome = "returned" /\ strategy = "weighted") =>
          /\ \A m \in MetricSet :
                LET R == WeightedReporters(results, m)
                IN  WeightOf(before.rel, R) > 0 =>
                       IsMean(merged.current[m],
                              WeightedField(results, before.rel, m, R),
                              WeightOf(before.rel, R))
          /\ UpdatedAfterwards

\* the second call: the first one moved the scores, `dynamic` now picks a
\* reading the initial scores would not have picked, and the scores this
\* call's update leaves would have picked yet another
C25_Witness ==
    /\ outcome = "returned"
    /\ strategy = "dynamic"
    /\ calls = 2
    /\ before.rel # InitRELIABILITY
    /\ merged.current \notin PickedCurrent(results, InitRELIABILITY)
    /\ merged.current \notin PickedCurrent(results, RELIABILITY)

(* C26: under best the three field-groups are chosen independently: hourly  *)
(* is the first non-empty hourly series and daily the first non-empty daily *)
(* series in the order weatherapi, openmeteo, openweather, whichever source *)
(* supplied current; a source whose reading lost (null temperature) can     *)
(* still supply hourly or daily.                                            *)
C26_BestPicksEachGroupAlone ==
    (outcome # "idle" /\ strategy = "best") =>
      /\ outcome = "returned"
      /\ \A key \in SeriesKeys :
            IF WithSeries(results, key) = {} THEN merged[key] = NoneDF
            ELSE merged[key] = results[FirstIn(WithSeries(results, key))][key]

\* weatherapi's reading has no temperature, so current is openmeteo's; hourly
\* is weatherapi's all the same, and daily, which weatherapi lacks, is
\* openmeteo's
C26_Witness ==
    /\ outcome = "returned"
    /\ strategy = "best"
    /\ Truthy(GetCurrent(results["weatherapi"]))
    /\ ~Reports(results, "weatherapi", "temp")
    /\ merged.current.source = Some("openmeteo")
    /\ NonEmptyDF(merged.hourly)
    /\ merged.hourly = results["weatherapi"].hourly
    /\ ~NonEmptyDF(GetSeries(results["weatherapi"], "daily"))
    /\ NonEmptyDF(merged.daily)
    /\ merged.daily = results["openmeteo"].daily

CurrentFields == {"temp", "humidity", "pressure", "wind_speed"}

\* the scores of the sources the weighted merge reads for m sum to zero
ZeroWeight(res, rel, m) ==
    /\ WeightedReporters(res, m) # {}
    /\ \A s \in WeightedReporters(res, m) : rel[s] = 0

(* C28: merge_sources_weighted returns without raising in every tracker     *)
(* state the updates reach, scores clamped to 0.0 included; a current field *)
(* whose reporters' scores sum to zero comes out null.                      *)
C28_WeightedNeverRaises ==
    (strategy = "weighted" /\ outcome # "idle") =>
        /\ outcome = "returned"
        /\ \A m \in CurrentFields :
              ZeroWeight(results, before.rel, m) => merged.current[m] = None

(* Vocabulary of the weighted series *)

\* the non-null values the sources supplied for field f at timestamp t
Supplied(res, f, t) ==
    UNION {{res[s].hourly.rows[k][f][1] :
               k \in {i \in DOMAIN res[s].hourly.rows :
                        /\ res[s].hourly.rows[i].ts = t
                        /\ res[s].hourly.rows[i][f] # None}} :
           s \in {x \in Sources : NonEmptyDF(res[x].hourly)}}

\* the number x lies between the least and the greatest member of S
Between(x, S) ==
    /\ x # None
    /\ MinOf(S) * x[2] <= x[1]
    /\ x[1] <= MaxOf(S) * x[2]

(* C29: with positive scores every numeric field of the hourly series of    *)
(* merge_sources_weighted lies, at each timestamp, between the least and    *)
(* the greatest non-null value the sources supplied for that field at that  *)
(* timestamp; a null value adds no weight to the denominator.               *)
C29_WeightedHourlyWithinSupplied ==
    (/\ strategy = "weighted"
     /\ outcome = "returned"
     /\ \A s \in Sources : before.rel[s] > 0
     /\ merged.hourly.isdf) =>
        \A k \in DOMAIN merged.hourly.rows :
            \A f \in {"temp", "pressure"} :
                LET S == Supplied(results, f, merged.hourly.rows[k].ts)
                IN  S # {} => Between(merged.hourly.rows[k][f], S)

\* the calls that are not update_reliability_multi
Readers == {"best", "avg", "dynamic", "weighted", "collect_sources", "reliability_report"}

\* the step is a call of one of the readers
ReaderCalled == outcome = "idle" /\ outcome' # "idle" /\ strategy' \in Readers

TrackerChanged == RELIABILITY' # RELIABILITY \/ DEVIATION_COUNT' # DEVIATION_COUNT

\* the frame of reliability_report has one row per tracked source
OneRowPerSource(rows) ==
    /\ Len(rows) = Cardinality(Sources)
    /\ \A s \in Sources :
          \E k \in DOMAIN rows :
              /\ rows[k].source = s
              /\ rows[k].reliability_score = RELIABILITY[s]
              /\ rows[k].deviation_count = DEVIATION_COUNT[s]

(* C30: only update_reliability_multi changes the tracker: a call of        *)
(* merge_sources, merge_sources_dynamic, merge_sources_weighted,            *)
(* collect_sources or reliability_report leaves every score and counter as  *)
(* it was; both tables always have exactly the keys weatherapi, openmeteo,  *)
(* openweather; reliability_report has one row per source.                  *)
C30_OnlyUpdateChangesTracker ==
    /\ [][(ReaderCalled => ~TrackerChanged) /\ (TrackerChanged => updates' = 1)]_vars
    /\ [](/\ DOMAIN RELIABILITY = Sources
          /\ DOMAIN DEVIATION_COUNT = Sources
          /\ (report.fn = "reliability_report" => OneRowPerSource(report.rows)))

\* a merger has returned, and the report is read, after updates moved the tracker
C30_Witness ==
    /\ outcome = "returned"
    /\ strategy \in Readers
    /\ RELIABILITY # InitRELIABILITY
    /\ DEVIATION_COUNT # InitDEVIATION_COUNT
    /\ RELIABILITY = before.rel
    /\ DEVIATION_COUNT = before.dev

====
